---- MODULE Spec2Model ----
(***************************************************************************)
(* Model of the generic REST controller (Controller[T]) of deluan/rest,    *)
(* running over the example in-memory repositories (SampleRepository and   *)
(* PersistableSampleRepository with T = examples.SampleModel).             *)
(*                                                                         *)
(* Go values are modelled structurally:                                    *)
(*   - an error is its Unwrap chain, a sequence of nodes, outermost first; *)
(*     the nil error is the empty chain;                                   *)
(*   - a JSON value is a tagged record (JStr, JNum, JNull, JArr, JObj);    *)
(*   - a JSON text (request body, _filters value) is the result of         *)
(*     scanning it: empty, garbage, or one JSON value optionally followed  *)
(*     by trailing garbage;                                                *)
(*   - a slice is a sequence, the nil slice is NilSlice.                   *)
(***************************************************************************)
EXTENDS Integers, Sequences, FiniteSets, TLC

VARIABLES
    data,     \* SampleRepository.data: id -> SampleModel
    seq,      \* SampleRepository.seq
    err,      \* SampleRepository.err (set by SetError)
    pc,       \* position of the request being handled
    cur,      \* the request being handled (or the last one handled)
    entities, \* GetAll's local: the list returned by ReadAll
    calls,    \* backend calls made on behalf of cur, in order
    resp,     \* the response written for cur
    data0,    \* the records when the handling of cur began
    parseIn,  \* the url.Values handed to parseOptions on its own
    parseOut, \* what parseOptions returned for parseIn
    callers,  \* the position of each goroutine calling the repository
    saved     \* the ids the successful Save calls of the callers returned

vars == <<data, seq, err, pc, cur, entities, calls, resp, data0, parseIn, parseOut, callers, saved>>

---------------------------------------------------------------------------
(* Bounds *)

MaxSeq == 2        \* Save is exercised until seq reaches this value

---------------------------------------------------------------------------
(* strconv.FormatInt(n, 10) *)

Digit(d) ==
    CASE d = 0 -> "0" [] d = 1 -> "1" [] d = 2 -> "2" [] d = 3 -> "3"
      [] d = 4 -> "4" [] d = 5 -> "5" [] d = 6 -> "6" [] d = 7 -> "7"
      [] d = 8 -> "8" [] d = 9 -> "9"

RECURSIVE FormatNat(_)
FormatNat(n) == IF n < 10 THEN Digit(n) ELSE FormatNat(n \div 10) \o Digit(n % 10)

FormatInt(n) == IF n < 0 THEN "-" \o FormatNat(-n) ELSE FormatNat(n)

---------------------------------------------------------------------------
(* JSON values *)

JNull   == [t |-> "null"]
JStr(s) == [t |-> "string", s |-> s]
JNum(n) == [t |-> "number", n |-> n]
JArr(a) == [t |-> "array", items |-> a]
JObj(f) == [t |-> "object", fields |-> f]

EmptyMap == [k \in {} |-> ""]

\* Go values handed to json.Marshal
NilSlice        == [go |-> "nilslice"]
GoSlice(s)      == [go |-> "slice", elems |-> s]
GoStrings(s)    == [go |-> "[]string", elems |-> s]
GoStringMap(m)  == [go |-> "map[string]string", m |-> m]
GoModel(e)      == [go |-> "SampleModel", e |-> e]
GoValidation(m) == [go |-> "*ValidationError", Errors |-> m]
GoNil           == [go |-> "nil"]
GoInt64Map(m)   == [go |-> "map[string]int64", m |-> m]
GoOldModel(e)   == [go |-> "examples.SampleModel (int64 ID)", e |-> e]
GoOldSlice(s)   == [go |-> "[]examples.SampleModel (int64 ID)", elems |-> s]

\* SampleModel has no json tags: the keys are the Go field names
MarshalModel(e) == JObj([ID |-> JStr(e.ID), Name |-> JStr(e.Name), Age |-> JNum(e.Age)])

\* the earlier SampleModel, whose ID is an int64
OldMarshalModel(e) == JObj([ID |-> JNum(e.ID), Name |-> JStr(e.Name), Age |-> JNum(e.Age)])

\* json.Marshal
Marshal(v) ==
    CASE v.go = "nilslice"          -> JNull
      [] v.go = "nil"               -> JNull
      [] v.go = "map[string]int64"  -> JObj([k \in DOMAIN v.m |-> JNum(v.m[k])])
      [] v.go = "examples.SampleModel (int64 ID)" -> OldMarshalModel(v.e)
      [] v.go = "[]examples.SampleModel (int64 ID)" ->
             JArr([i \in DOMAIN v.elems |-> OldMarshalModel(v.elems[i])])
      [] v.go = "slice"             -> JArr([i \in DOMAIN v.elems |-> MarshalModel(v.elems[i])])
      [] v.go = "[]string"          -> JArr([i \in DOMAIN v.elems |-> JStr(v.elems[i])])
      [] v.go = "map[string]string" -> JObj([k \in DOMAIN v.m |-> JStr(v.m[k])])
      [] v.go = "SampleModel"       -> MarshalModel(v.e)
      [] v.go = "*ValidationError"  -> JObj([errors |-> JObj([k \in DOMAIN v.Errors |-> JStr(v.Errors[k])])])

---------------------------------------------------------------------------
(* Errors: errors.New sentinels, fmt.Errorf("%w") wrappers, ValidationError *)

Nil == << >>

Sentinel(name, text) == << [type |-> "*errorString", ident |-> name, text |-> text] >>

\* an error of encoding/json
JSONError(type, text) == << [type |-> type, ident |-> "", text |-> text] >>

ErrNotFound         == Sentinel("ErrNotFound", "data not found")
ErrPermissionDenied == Sentinel("ErrPermissionDenied", "permission denied")
ErrInvalidQueryOpts == Sentinel("ErrInvalidQueryOpts", "invalid query options")

\* fmt.Sprintf("%v", m) of a map[string]string with at most one key
FmtMap(m) ==
    IF DOMAIN m = {} THEN "map[]"
    ELSE LET k == CHOOSE x \in DOMAIN m : TRUE IN "map[" \o k \o ":" \o m[k] \o "]"

\* err.Error() of one node
NodeText(n) ==
    IF n.type \in {"ValidationError", "*ValidationError"}
    THEN "Errors: " \o FmtMap(n.Errors)
    ELSE n.text

\* err.Error()
ErrorText(e) == NodeText(e[1])

\* fmt.Errorf(msg + ": %w", e)
Wrap(msg, e) == << [type |-> "*wrapError", text |-> msg \o ": " \o ErrorText(e)] >> \o e

\* &ValidationError{Errors: m} and ValidationError{Errors: m}
ValidationErrorPtr(m) == << [type |-> "*ValidationError", Errors |-> m] >>
ValidationErrorVal(m) == << [type |-> "ValidationError", Errors |-> m] >>

\* errors.As(e, &vErr) with vErr of type *ValidationError: the first node of
\* the chain whose dynamic type is *ValidationError (0 when there is none)
AsValidationError(e) ==
    IF \E i \in DOMAIN e : e[i].type = "*ValidationError"
    THEN CHOOSE i \in DOMAIN e :
            /\ e[i].type = "*ValidationError"
            /\ \A j \in DOMAIN e : e[j].type = "*ValidationError" => i <= j
    ELSE 0

\* ValidationError.Is(target)
ValidationErrorIs(target) == AsValidationError(target) # 0

\* errors.Is(e, target): some node of the chain equals target's node, or has
\* an Is method that accepts target
ErrorsIs(e, target) ==
    \E i \in DOMAIN e :
        \/ e[i] = target[1]
        \/ /\ e[i].type \in {"ValidationError", "*ValidationError"}
           /\ ValidationErrorIs(target)

---------------------------------------------------------------------------
(* JSON texts and decoding *)

\* A text is "" (empty), a text that is no JSON value (garbage, char being
\* the character the scanner stops at), the text of the JSON value v, or
\* that text followed by the characters }{
TextEmpty           == [scan |-> "empty"]
TextGarbage         == [scan |-> "garbage", char |-> "B"]
TextMissingQuotes   == [scan |-> "garbage", char |-> "M"]
TextJSON(v)         == [scan |-> "value", value |-> v, trailing |-> FALSE]
TextJSONTrailing(v) == [scan |-> "value", value |-> v, trailing |-> TRUE]

ZeroModel == [ID |-> "", Name |-> "", Age |-> 0]
NilPtr    == [nil |-> TRUE]

\* encoding/json matches object keys to struct fields ignoring case
Fold(k) ==
    CASE k = "ID"   -> "id"
      [] k = "Name" -> "name"
      [] k = "Age"  -> "age"
      [] OTHER      -> k

\* the keys of object o that address the struct field whose folded name is f
KeysFor(o, f) == {k \in DOMAIN o : Fold(k) = f}

\* the JSON value decoded into the struct field f, JNull when no key addresses it
FieldValue(o, f) == IF KeysFor(o, f) = {} THEN JNull ELSE o[CHOOSE k \in KeysFor(o, f) : TRUE]

\* unmarshalling one JSON value into a SampleModel
UnmarshalModel(v) ==
    IF v.t = "null" THEN [ok |-> TRUE, entity |-> ZeroModel]
    ELSE IF v.t # "object" THEN [ok |-> FALSE, entity |-> ZeroModel]
    ELSE LET id   == FieldValue(v.fields, "id")
             name == FieldValue(v.fields, "name")
             age  == FieldValue(v.fields, "age")
         IN  IF \/ id.t \notin {"null", "string"}
                \/ name.t \notin {"null", "string"}
                \/ age.t \notin {"null", "number"}
             THEN [ok |-> FALSE, entity |-> ZeroModel]
             ELSE [ok |-> TRUE,
                   entity |-> [ID   |-> IF id.t = "string" THEN id.s ELSE "",
                               Name |-> IF name.t = "string" THEN name.s ELSE "",
                               Age  |-> IF age.t = "number" THEN age.n ELSE 0]]

\* json.NewDecoder(body).Decode(&entity): decodes the first JSON value of the
\* stream; what follows that value is not read
DecodeModel(text) ==
    IF text.scan # "value" THEN [ok |-> FALSE, entity |-> ZeroModel]
    ELSE UnmarshalModel(text.value)

\* getFieldNames leaving out the keys whose value is null
getFieldNames_NonNull(text) ==
    IF text.scan # "value" \/ text.trailing THEN [ok |-> FALSE, fields |-> {}]
    ELSE IF text.value.t = "null" THEN [ok |-> TRUE, fields |-> {}]
    ELSE IF text.value.t # "object" THEN [ok |-> FALSE, fields |-> {}]
    ELSE [ok |-> TRUE,
          fields |-> {k \in DOMAIN text.value.fields : text.value.fields[k].t # "null"}]

\* Controller[T].getFieldNames: json.Unmarshal of the whole body into a
\* map[string]json.RawMessage, then the keys of that map (in no fixed order)
getFieldNames(text) ==
    IF text.scan # "value" \/ text.trailing THEN [ok |-> FALSE, fields |-> {}]
    ELSE IF text.value.t = "null" THEN [ok |-> TRUE, fields |-> {}]
    ELSE IF text.value.t # "object" THEN [ok |-> FALSE, fields |-> {}]
    ELSE [ok |-> TRUE, fields |-> DOMAIN text.value.fields]

---------------------------------------------------------------------------
(* Response rendering *)

\* httptest.NewRecorder: Code is 200 until a header is written
NewRecorder == [status |-> 200, body |-> << >>, header |-> EmptyMap, writes |-> 0]

SetHeader(w, k, v) == [w EXCEPT !.header = (k :> v) @@ w.header]

\* RespondWithJSON
RespondWithJSON(w, code, payload) ==
    [status |-> IF w.writes = 0 THEN code ELSE w.status,
     body   |-> Append(w.body, Marshal(payload)),
     header |-> ("Content-Type" :> "application/json") @@ w.header,
     writes |-> w.writes + 1]

\* RespondWithError
RespondWithError(w, code, message) ==
    RespondWithJSON(w, code, GoStringMap([error |-> message]))

\* Controller[T].entityName with T = examples.SampleModel
entityName == "examples.SampleModel"

RECURSIVE JoinIds(_)
JoinIds(ids) ==
    IF Len(ids) = 0 THEN ""
    ELSE IF Len(ids) = 1 THEN ids[1]
    ELSE ids[1] \o " " \o JoinIds(Tail(ids))

\* fmt's %s of a []string
FmtIds(ids) == "[" \o JoinIds(ids) \o "]"

---------------------------------------------------------------------------
(* url.Values and QueryOptions *)

EmptyValues == [k \in {} |-> << >>]

\* url.Values.Get for a key holding plain strings
QueryGet(q, k) == IF k \in DOMAIN q /\ Len(q[k]) > 0 THEN q[k][1] ELSE ""

\* url.Values.Get("_filters"): the value as a JSON text
QueryGetText(q, k) == IF k \in DOMAIN q /\ Len(q[k]) > 0 THEN q[k][1] ELSE TextEmpty

\* url.Values[k]
QueryValues(q, k) == IF k \in DOMAIN q THEN q[k] ELSE << >>

(* Go's int on a 64-bit build.  An int64 is held in three limbs of 21 bits:
   the value is h * 2^42 + m * 2^21 + l with 0 <= m, l < 2^21 and
   -2^21 <= h < 2^21, so that h carries the sign as in two's complement. *)
Limb == 2^21

\* the int64 of a small integer
I64(n) == [h |-> (n \div Limb) \div Limb, m |-> (n \div Limb) % Limb, l |-> n % Limb]

MaxInt64 == [h |-> Limb - 1, m |-> Limb - 1, l |-> Limb - 1]
MinInt64 == [h |-> -Limb, m |-> 0, l |-> 0]

\* the top limb reduced modulo 2^64
WrapHigh(h) == ((h + Limb) % (2 * Limb)) - Limb

\* a - b on int: the difference wraps around on overflow
I64Sub(a, b) ==
    LET l  == a.l - b.l
        bl == IF l < 0 THEN 1 ELSE 0
        m  == a.m - b.m - bl
        bm == IF m < 0 THEN 1 ELSE 0
    IN  [h |-> WrapHigh(a.h - b.h - bm), m |-> m + bm * Limb, l |-> l + bl * Limb]

\* the value of a decimal digit, -1 for any other character
DigitVal(c) ==
    CASE c = "0" -> 0 [] c = "1" -> 1 [] c = "2" -> 2 [] c = "3" -> 3 [] c = "4" -> 4
      [] c = "5" -> 5 [] c = "6" -> 6 [] c = "7" -> 7 [] c = "8" -> 8 [] c = "9" -> 9
      [] OTHER -> -1

\* strconv.ParseUint(s, 10, 64) from character i on, n being the value read
\* so far: a character that is no digit is a syntax error, a value of 2^64
\* or more a range error (n is held in limbs with 0 <= n.h < 2^22)
RECURSIVE ParseUint(_, _, _)
ParseUint(s, i, n) ==
    IF i > Len(s) THEN [st |-> "ok", n |-> n]
    ELSE LET d == DigitVal(s[i])
             l == n.l * 10 + d
             m == n.m * 10 + l \div Limb
             h == n.h * 10 + m \div Limb
         IN  IF d < 0 THEN [st |-> "syntax", n |-> n]
             ELSE IF h >= 2 * Limb THEN [st |-> "range", n |-> n]
             ELSE ParseUint(s, i + 1, [h |-> h, m |-> m % Limb, l |-> l % Limb])

\* strconv.Atoi, error ignored.  A numeral is a sequence of characters.  The
\* value is 0 on a syntax error; a value out of the range of int is replaced
\* by the nearest int (and an error that parseOptions drops).
Atoi(s) ==
    IF Len(s) = 0 THEN I64(0)
    ELSE LET neg    == s[1] = "-"
             digits == IF s[1] \in {"+", "-"} THEN Tail(s) ELSE s
             u      == ParseUint(digits, 1, I64(0))
         IN  IF Len(digits) = 0 \/ u.st = "syntax" THEN I64(0)
             ELSE IF u.st = "range" THEN (IF neg THEN MinInt64 ELSE MaxInt64)
             ELSE IF ~neg THEN (IF u.n.h >= Limb THEN MaxInt64 ELSE u.n)
             ELSE IF u.n.h > Limb \/ (u.n.h = Limb /\ (u.n.m > 0 \/ u.n.l > 0))
                  THEN MinInt64
                  ELSE I64Sub(I64(0), u.n)

\* the spacing of the float64 values around a non-negative int with top limb h
RECURSIVE Ulp(_)
Ulp(h) == IF h < 2^11 THEN 1 ELSE 2 * Ulp(h \div 2)

\* float64(d) for d >= 0: d rounded to 53 significant bits, ties to even.  The
\* result is held in limbs; its top limb is Limb when it is 2^63.
Float64(d) ==
    LET u    == Ulp(d.h)
        rem  == d.l % u
        low  == d.l - rem
        up   == 2 * rem > u \/ (2 * rem = u /\ (low \div u) % 2 = 1)
        l    == IF up THEN low + u ELSE low
        m    == d.m + l \div Limb
    IN  [h |-> d.h + m \div Limb, m |-> m % Limb, l |-> l % Limb]

\* what int(f) yields for a float64 f that no int holds: the result depends
\* on the build (amd64 gives the smallest int, arm64 the largest)
FloatToIntOutcomes == {MinInt64, MaxInt64}

\* strings.ToLower on the order words
ToLower(s) ==
    CASE s = "DESC" -> "desc"
      [] s = "ASC"  -> "asc"
      [] s = "Desc" -> "desc"
      [] OTHER      -> s

\* a test of the key against a list of reserved names
HasUnderscorePrefix_Reserved(k) ==
    k \in {":id", "_start", "_end", "_sort", "_order", "_filters"}

\* strings.HasPrefix(k, "_") on the keys that occur in queries
HasUnderscorePrefix(k) == k \in {"_start", "_end", "_sort", "_order", "_filters", "_limit"}

\* url.QueryUnescape on one run of characters: '+' becomes a space, "%25"
\* becomes '%', a '%' that no two hexadecimal digits follow is an error
UnescapeString(s) ==
    CASE s = "a+b"   -> [ok |-> TRUE, s |-> "a b"]
      [] s = "50%25" -> [ok |-> TRUE, s |-> "50%"]
      [] s = "100%"  -> [ok |-> FALSE, s |-> ""]
      [] OTHER       -> [ok |-> TRUE, s |-> s]

\* whether url.QueryUnescape accepts the text of the JSON value v
RECURSIVE UnescapeOK(_)
UnescapeOK(v) ==
    CASE v.t = "string" -> UnescapeString(v.s).ok
      [] v.t = "array"  -> \A i \in DOMAIN v.items : UnescapeOK(v.items[i])
      [] v.t = "object" -> \A k \in DOMAIN v.fields :
                               UnescapeString(k).ok /\ UnescapeOK(v.fields[k])
      [] OTHER          -> TRUE

\* the JSON value whose text is the unescaped text of v
RECURSIVE UnescapeValue(_)
UnescapeValue(v) ==
    CASE v.t = "string" -> JStr(UnescapeString(v.s).s)
      [] v.t = "array"  -> JArr([i \in DOMAIN v.items |-> UnescapeValue(v.items[i])])
      [] v.t = "object" ->
            JObj([k2 \in {UnescapeString(k).s : k \in DOMAIN v.fields} |->
                    UnescapeValue(v.fields[CHOOSE k \in DOMAIN v.fields :
                                               UnescapeString(k).s = k2])])
      [] OTHER          -> v

\* filterStr, _ = url.QueryUnescape(filterStr): on an error the text is ""
QueryUnescape(text) ==
    IF text.scan # "value" THEN text
    ELSE IF UnescapeOK(text.value) THEN [text EXCEPT !.value = UnescapeValue(@)]
    ELSE TextEmpty

\* the '_filters' part of parseFilters passing over a text that does not
\* decode into a map
decodeFilters_IgnoreInvalid(params) ==
    LET text == QueryUnescape(QueryGetText(params, "_filters"))
    IN  IF text.scan = "value" /\ ~text.trailing /\ text.value.t = "object"
        THEN [ok |-> TRUE, nilmap |-> FALSE, m |-> text.value.fields, err |-> Nil]
        ELSE [ok |-> TRUE, nilmap |-> FALSE, m |-> EmptyMap, err |-> Nil]

\* the '_filters' part of parseFilters: json.Unmarshal of the unescaped text
\* into the map made before it.  The JSON null sets the map to nil.
decodeFilters(params) ==
    LET filterStr == QueryGetText(params, "_filters")
        text      == QueryUnescape(filterStr)
    IN  IF filterStr.scan = "empty"
        THEN [ok |-> TRUE, nilmap |-> FALSE, m |-> EmptyMap, err |-> Nil]
        ELSE IF text.scan = "empty"
             THEN [ok |-> FALSE, nilmap |-> FALSE, m |-> EmptyMap,
                   err |-> JSONError("*json.SyntaxError", "unexpected end of JSON input")]
        ELSE IF text.scan = "garbage"
             THEN [ok |-> FALSE, nilmap |-> FALSE, m |-> EmptyMap,
                   err |-> JSONError("*json.SyntaxError",
                                     "invalid character '" \o text.char
                                         \o "' looking for beginning of value")]
        ELSE IF text.trailing
             THEN [ok |-> FALSE, nilmap |-> FALSE, m |-> EmptyMap,
                   err |-> JSONError("*json.SyntaxError",
                                     "invalid character '}' after top-level value")]
        ELSE IF text.value.t = "null"
             THEN [ok |-> TRUE, nilmap |-> TRUE, m |-> EmptyMap, err |-> Nil]
        ELSE IF text.value.t # "object"
             THEN [ok |-> FALSE, nilmap |-> FALSE, m |-> EmptyMap,
                   err |-> JSONError("*json.UnmarshalTypeError",
                                     "json: cannot unmarshal " \o text.value.t
                                         \o " into Go value of type map[string]interface {}")]
        ELSE [ok |-> TRUE, nilmap |-> FALSE, m |-> text.value.fields, err |-> Nil]

\* what parseFilters yields when it assigns to an entry of the nil map: the
\* goroutine panics and nothing is returned
FiltersPanic == [ok |-> FALSE, panic |-> TRUE, filters |-> EmptyMap, err |-> Nil]

\* parseFilters keeping only the first value of a key
parseFilters_FirstValue(params) ==
    LET parsed == decodeFilters(params)
        plain  == {k \in DOMAIN params : ~HasUnderscorePrefix(k)}
    IN  IF ~parsed.ok
        THEN [ok |-> FALSE, panic |-> FALSE, filters |-> EmptyMap, err |-> parsed.err]
        ELSE IF parsed.nilmap /\ plain # {} THEN FiltersPanic
        ELSE [ok |-> TRUE, panic |-> FALSE,
              filters |-> [k \in DOMAIN parsed.m \cup plain |->
                             IF k \in plain THEN JStr(params[k][1]) ELSE parsed.m[k]],
              err |-> Nil]

\* Controller[T].parseFilters
parseFilters(params) ==
    LET parsed == decodeFilters(params)
        plain  == {k \in DOMAIN params : ~HasUnderscorePrefix(k)}
    IN  IF ~parsed.ok
        THEN [ok |-> FALSE, panic |-> FALSE, filters |-> EmptyMap, err |-> parsed.err]
        ELSE IF parsed.nilmap /\ plain # {} THEN FiltersPanic
        ELSE [ok |-> TRUE, panic |-> FALSE,
              filters |-> [k \in DOMAIN parsed.m \cup plain |->
                             IF k \in plain
                             THEN IF Len(params[k]) = 1 THEN JStr(params[k][1])
                                  ELSE JArr([i \in DOMAIN params[k] |-> JStr(params[k][i])])
                             ELSE parsed.m[k]],
              err |-> Nil]

\* int(math.Max(0, float64(n))), oor being what the build yields for a
\* float64 out of the range of int
Max0(n, oor) ==
    IF n.h < 0 THEN I64(0)
    ELSE IF Float64(n).h >= Limb THEN oor
    ELSE Float64(n)

ZeroOptions == [Sort |-> "", Order |-> "", Offset |-> I64(0), Max |-> I64(0), Filters |-> EmptyMap]

\* parseOptions handing over '_order' as it was written
parseOptions_NoLower(params, oor) ==
    LET start == Atoi(QueryGet(params, "_start"))
        end   == Atoi(QueryGet(params, "_end"))
        f     == parseFilters(params)
    IN  IF ~f.ok THEN [ok |-> FALSE, panic |-> f.panic, options |-> ZeroOptions, err |-> f.err]
        ELSE [ok |-> TRUE, panic |-> FALSE,
              options |-> [Sort    |-> QueryGet(params, "_sort"),
                           Order   |-> QueryGet(params, "_order"),
                           Offset  |-> start,
                           Max     |-> Max0(I64Sub(end, start), oor),
                           Filters |-> f.filters],
              err |-> Nil]

\* Controller[T].parseOptions (oor: see Max0)
parseOptions(params, oor) ==
    LET start == Atoi(QueryGet(params, "_start"))
        end   == Atoi(QueryGet(params, "_end"))
        f     == parseFilters(params)
    IN  IF ~f.ok THEN [ok |-> FALSE, panic |-> f.panic, options |-> ZeroOptions, err |-> f.err]
        ELSE [ok |-> TRUE, panic |-> FALSE,
              options |-> [Sort    |-> QueryGet(params, "_sort"),
                           Order   |-> ToLower(QueryGet(params, "_order")),
                           Offset  |-> start,
                           Max     |-> Max0(I64Sub(end, start), oor),
                           Filters |-> f.filters],
              err |-> Nil]

---------------------------------------------------------------------------
(* The example repositories, over the state (data, seq, err) *)

\* SampleRepository.error
RepoError == err

\* SampleRepository.Read
RepoRead(id) ==
    IF RepoError # Nil THEN [entity |-> NilPtr, err |-> RepoError]
    ELSE IF id \in DOMAIN data THEN [entity |-> data[id], err |-> Nil]
    ELSE [entity |-> NilPtr, err |-> ErrNotFound]

\* the orders in which sync.Map.Range may visit the records
RangeOrders ==
    {o \in [1..Cardinality(DOMAIN data) -> DOMAIN data] :
        \A i, j \in DOMAIN o : i # j => o[i] # o[j]}

\* SampleRepository.ReadAll, visiting the records in order o
RepoReadAll(o) ==
    IF RepoError # Nil THEN [list |-> NilSlice, err |-> RepoError]
    ELSE [list |-> GoSlice([i \in DOMAIN o |-> data[o[i]]]), err |-> Nil]

\* SampleRepository.Count: the count is computed also when an error is set
RepoCount == [count |-> Cardinality(DOMAIN data), err |-> RepoError]

ErrExists == Sentinel("exists", "record already exists")

\* RepoSave storing the entity without assigning the generated id to it
RepoSave_KeepID(entity) ==
    IF RepoError # Nil THEN [id |-> "", err |-> RepoError, data |-> data, seq |-> seq]
    ELSE LET id == FormatInt(seq + 1) IN
         IF id \in DOMAIN data
         THEN [id |-> "", err |-> ErrExists, data |-> data, seq |-> seq + 1]
         ELSE [id |-> id, err |-> Nil, data |-> (id :> entity) @@ data, seq |-> seq + 1]

\* PersistableSampleRepository.Save
RepoSave(entity) ==
    IF RepoError # Nil THEN [id |-> "", err |-> RepoError, data |-> data, seq |-> seq]
    ELSE LET id == FormatInt(seq + 1) IN
         IF id \in DOMAIN data
         THEN [id |-> "", err |-> ErrExists, data |-> data, seq |-> seq + 1]
         ELSE [id |-> id, err |-> Nil,
               data |-> (id :> [entity EXCEPT !.ID = id]) @@ data, seq |-> seq + 1]

\* PersistableSampleRepository.Update
RepoUpdate(id, entity, cols) ==
    IF RepoError # Nil THEN [err |-> RepoError, data |-> data]
    ELSE IF id \notin DOMAIN data THEN [err |-> ErrNotFound, data |-> data]
    ELSE LET current == data[id]
             updated ==
                 IF cols = {} THEN [entity EXCEPT !.ID = id]
                 ELSE [ID   |-> current.ID,
                       Name |-> IF "name" \in cols THEN entity.Name ELSE current.Name,
                       Age  |-> IF "age" \in cols THEN entity.Age ELSE current.Age]
         IN  [err |-> Nil, data |-> [data EXCEPT ![id] = updated]]

\* RepoDelete removing only the first of the ids
RepoDelete_FirstOnly(ids) ==
    IF RepoError # Nil THEN [err |-> RepoError, data |-> data]
    ELSE IF \E i \in DOMAIN ids : ids[i] \notin DOMAIN data
         THEN [err |-> ErrNotFound, data |-> data]
    ELSE LET gone == {ids[i] : i \in DOMAIN ids \cap {1}}
         IN  [err |-> Nil, data |-> [k \in DOMAIN data \ gone |-> data[k]]]

\* PersistableSampleRepository.Delete
RepoDelete(ids) ==
    IF RepoError # Nil THEN [err |-> RepoError, data |-> data]
    ELSE IF \E i \in DOMAIN ids : ids[i] \notin DOMAIN data
         THEN [err |-> ErrNotFound, data |-> data]
    ELSE LET gone == {ids[i] : i \in DOMAIN ids}
         IN  [err |-> Nil, data |-> [k \in DOMAIN data \ gone |-> data[k]]]

---------------------------------------------------------------------------
(* Inputs *)

\* every request carries its own context: consecutive requests never share one
NextCtx(c) == IF c = "ctxA" THEN "ctxB" ELSE "ctxA"

\* ids a request may name: ids Save assigns, and one it never assigns
IdInputs == {"1", "2", "999"}

\* the ':id' lists of Delete requests (none, one, several, repeated, unknown)
IdLists == { << >>, <<"1">>, <<"2">>, <<"999">>, <<"1", "2">>, <<"1", "1">>, <<"2", "999">> }

IdQuery(ids) == IF Len(ids) = 0 THEN EmptyValues ELSE (":id" :> ids)

\* json.Marshal of a SampleModel, as the tests' aRecordBody builds it
ModelBody(id, name, age) == TextJSON(MarshalModel([ID |-> id, Name |-> name, Age |-> age]))

Bodies ==
    { TextEmpty,
      TextGarbage,
      TextJSON(JNull),
      ModelBody("0", "Joe", 30),
      TextJSON(JObj([name |-> JStr("Ann"), age |-> JNum(31)])),
      TextJSON(JObj([name |-> JNull, age |-> JNum(0)])),
      TextJSON(JObj([Name |-> JStr("Joe"), Age |-> JStr("thirty")])),
      TextJSONTrailing(MarshalModel([ID |-> "0", Name |-> "Joe", Age |-> 30])) }

Queries ==
    { EmptyValues,
      ("_start" :> << <<"0">> >>) @@ ("_end" :> << <<"1">> >>),
      ("name" :> <<"Joe">>),
      ("_filters" :> <<TextGarbage>>),
      ("_filters" :> <<TextJSON(JObj([name |-> JStr("cecilia")]))>>) }

\* the values of '_start' and '_end': numerals as sequences of characters
StartNumerals ==
    { <<"0">>, <<"1", "0">>, <<"-", "5">>, <<"a", "b", "c">>,
      <<"-", "9","2","2","3","3","7","2","0","3","6","8","5","4","7","7","5","8","0","8">> }

EndNumerals ==
    { <<"3">>, <<"3", "0">>, <<"+", "7">>, <<"1", "x">>,
      <<"9","0","0","7","1","9","9","2","5","4","7","4","0","9","9","3">>,
      <<"9","2","2","3","3","7","2","0","3","6","8","5","4","7","7","5","8","0","7">>,
      <<"9","9","9","9","9","9","9","9","9","9","9","9","9","9","9","9","9","9","9","9">> }

PageParts ==
    { s @@ e : s \in {EmptyValues} \cup {"_start" :> <<n>> : n \in StartNumerals},
               e \in {EmptyValues} \cup {"_end" :> <<n>> : n \in EndNumerals} }

SortParts ==
    { EmptyValues,
      ("_sort" :> <<"name">>) @@ ("_order" :> <<"DESC">>),
      ("_sort" :> <<"Age">>) @@ ("_order" :> <<"asc">>),
      ("_order" :> <<"sideways">>) }

FilterParts ==
    { EmptyValues,
      ("name" :> <<"joe">>),
      ("name" :> <<"joe", "cecilia">>) @@ ("age" :> <<"30">>),
      ("_filters" :> <<TextJSON(JObj([name |-> JStr("cecilia"), age |-> JNum(22)]))>>),
      ("_filters" :> <<TextJSON(JObj([name |-> JStr("cecilia")]))>>) @@ ("name" :> <<"joe">>),
      ("_filters" :> <<TextGarbage>>),
      ("_filters" :> <<TextMissingQuotes>>),
      ("_filters" :> <<TextJSONTrailing(JObj([name |-> JStr("cecilia")]))>>),
      ("_filters" :> <<TextJSON(JArr(<<JStr("cecilia")>>))>>),
      ("_filters" :> <<TextJSON(JNull)>>),
      ("_filters" :> <<TextJSON(JNull)>>) @@ ("name" :> <<"joe">>),
      ("_filters" :> <<TextJSON(JObj([name |-> JStr("a+b")]))>>),
      ("_filters" :> <<TextJSON(JObj([name |-> JStr("100%"), age |-> JStr("22")]))>>),
      (":id" :> <<"1">>),
      ("_limit" :> <<"5">>) @@ ("name" :> <<"joe", "joe">>) }

\* the queries parseOptions is applied to
ParseInputs == { pg @@ so @@ fi : pg \in PageParts, so \in SortParts, fi \in FilterParts }

FieldErrors == [field1 |-> "not_valid"]

ErrUnknown == Sentinel("unknown", "unknown error")

\* the errors SetError is called with
ErrInputs ==
    { Nil,
      ErrNotFound,
      ErrPermissionDenied,
      ErrInvalidQueryOpts,
      ErrUnknown,
      Wrap("repo", ErrPermissionDenied),
      ValidationErrorPtr(FieldErrors),
      ValidationErrorVal(FieldErrors) }

\* parseOptions has not been called on parseIn
NotParsed == [done |-> FALSE]

NoRequest == [op |-> "none", persistable |-> FALSE, ctx |-> "", query |-> EmptyValues,
              body |-> TextEmpty]

Request(op, p, ctx, query, body) ==
    [op |-> op, persistable |-> p, ctx |-> ctx, query |-> query, body |-> body]

---------------------------------------------------------------------------
(* Controller[T]: the outcome switches of the handlers *)

\* GetRespond comparing the error with == instead of errors.Is
GetRespond_Eq(w, id, r) ==
    IF r.err = Nil THEN RespondWithJSON(w, 200, GoModel(r.entity))
    ELSE IF r.err = ErrNotFound
    THEN RespondWithError(w, 404, entityName \o "(id:" \o id \o ") not found")
    ELSE IF r.err = ErrPermissionDenied
    THEN RespondWithError(w, 403,
             "Reading " \o entityName \o "(id:" \o id \o "): Permission denied")
    ELSE RespondWithError(w, 500, ErrorText(r.err))

\* Controller[T].Get: the switch on the outcome r of Read(id)
GetRespond(w, id, r) ==
    IF r.err = Nil THEN RespondWithJSON(w, 200, GoModel(r.entity))
    ELSE IF ErrorsIs(r.err, ErrNotFound)
    THEN RespondWithError(w, 404, entityName \o "(id:" \o id \o ") not found")
    ELSE IF ErrorsIs(r.err, ErrPermissionDenied)
    THEN RespondWithError(w, 403,
             "Reading " \o entityName \o "(id:" \o id \o "): Permission denied")
    ELSE RespondWithError(w, 500, ErrorText(r.err))

\* GetAllBody rendering an empty result from a nil slice
GetAllBody_NilEmpty(list) ==
    IF list.go = "nilslice" \/ Len(list.elems) = 0 THEN NilSlice ELSE list

\* Controller[T].GetAll: the body rendered for a successful ReadAll
GetAllBody(list) ==
    IF list.go = "nilslice" \/ Len(list.elems) = 0 THEN GoStrings(<< >>) ELSE list

\* Controller[T].GetAll: the success case, given the value count returned
GetAllRespondOK(w, list, count) ==
    RespondWithJSON(SetHeader(w, "X-Total-Count", FormatInt(count)), 200, GetAllBody(list))

\* GetAllRespondErr without the permission-denied case
GetAllRespondErr_NoForbidden(w, e) == RespondWithError(w, 500, ErrorText(e))

\* Controller[T].GetAll: the error cases of the switch on ReadAll's error
GetAllRespondErr(w, e) ==
    IF ErrorsIs(e, ErrPermissionDenied)
    THEN RespondWithError(w, 403, "Error reading " \o entityName \o ": Permission denied")
    ELSE RespondWithError(w, 500, ErrorText(e))

\* PutRespondErr answering with the bare status texts
PutRespondErr_Bare(w, e) ==
    IF ErrorsIs(e, ErrNotFound)
    THEN RespondWithError(w, 404, "Not Found")
    ELSE IF ErrorsIs(e, ErrPermissionDenied)
    THEN RespondWithError(w, 403, "Forbidden")
    ELSE IF AsValidationError(e) # 0
    THEN RespondWithJSON(w, 400, GoValidation(e[AsValidationError(e)].Errors))
    ELSE RespondWithError(w, 500, ErrorText(e))

\* Controller[T].Put: the error cases of the switch on Update's error
PutRespondErr(w, e) ==
    IF ErrorsIs(e, ErrNotFound)
    THEN RespondWithError(w, 404, entityName \o " not found")
    ELSE IF ErrorsIs(e, ErrPermissionDenied)
    THEN RespondWithError(w, 403, "Updating " \o entityName \o ": Permission denied")
    ELSE IF AsValidationError(e) # 0
    THEN RespondWithJSON(w, 400, GoValidation(e[AsValidationError(e)].Errors))
    ELSE RespondWithError(w, 500, ErrorText(e))

\* Controller[T].Post: the switch on the outcome of Save
PostRespond(w, id, e) ==
    IF e = Nil THEN RespondWithJSON(w, 200, GoStringMap([id |-> id]))
    ELSE IF ErrorsIs(e, ErrPermissionDenied)
    THEN RespondWithError(w, 403, "Saving " \o entityName \o ": Permission denied")
    ELSE IF AsValidationError(e) # 0
    THEN RespondWithJSON(w, 400, GoValidation(e[AsValidationError(e)].Errors))
    ELSE RespondWithError(w, 500, ErrorText(e))

\* DeleteRespond answering an unclassified error with a fixed text
DeleteRespond_FixedText(w, ids, e) ==
    IF e = Nil THEN RespondWithJSON(w, 200, GoStringMap(EmptyMap))
    ELSE IF ErrorsIs(e, ErrNotFound)
    THEN RespondWithError(w, 404, entityName \o "(id:" \o FmtIds(ids) \o ") not found")
    ELSE IF ErrorsIs(e, ErrPermissionDenied)
    THEN RespondWithError(w, 403,
             "Deleting " \o entityName \o "(id:" \o FmtIds(ids) \o "): Permission denied")
    ELSE RespondWithError(w, 500, "Internal Server Error")

\* Controller[T].Delete: the switch on the outcome of Delete
DeleteRespond(w, ids, e) ==
    IF e = Nil THEN RespondWithJSON(w, 200, GoStringMap(EmptyMap))
    ELSE IF ErrorsIs(e, ErrNotFound)
    THEN RespondWithError(w, 404, entityName \o "(id:" \o FmtIds(ids) \o ") not found")
    ELSE IF ErrorsIs(e, ErrPermissionDenied)
    THEN RespondWithError(w, 403,
             "Deleting " \o entityName \o "(id:" \o FmtIds(ids) \o "): Permission denied")
    ELSE RespondWithError(w, 500, ErrorText(e))

\* the goroutines that call the repository next to the handler, and the
\* position of one that is in no call
Callers == {"a", "b"}
Idle    == [at |-> "idle"]

\* the goroutine that serves the request being handled
Handler    == "h"
Goroutines == Callers \cup {Handler}

\* the three handlers' answer when the backend is not Persistable
MethodNotAllowed(w) == RespondWithError(w, 405, "405 Method Not Allowed")

\* Post's and Put's answer to a body that does not decode
InvalidPayload(w) == RespondWithError(w, 422, "Invalid request payload")

---------------------------------------------------------------------------
(* State machine *)

Init ==
    /\ data = [k \in {} |-> ZeroModel]
    /\ seq = 0
    /\ err = Nil
    /\ pc = "idle"
    /\ cur = NoRequest
    /\ entities = NilSlice
    /\ calls = << >>
    /\ resp = NewRecorder
    /\ data0 = [k \in {} |-> ZeroModel]
    /\ parseIn = EmptyValues
    /\ parseOut = NotParsed
    /\ callers = [c \in Goroutines |-> Idle]
    /\ saved = << >>

\* SampleRepository.SetError.  The exchange recorded in (cur, calls, resp,
\* data0) is over once the caller goes on to set an error: the record is
\* dropped, unless a request is still being handled.
SetError(e) ==
    /\ err' = e
    /\ IF pc = "idle"
       THEN /\ cur' = [NoRequest EXCEPT !.ctx = cur.ctx]
            /\ calls' = << >>
            /\ resp' = NewRecorder
            /\ data0' = data
       ELSE UNCHANGED <<cur, calls, resp, data0>>
    /\ UNCHANGED <<data, seq, pc, entities, parseIn, parseOut, callers, saved>>

\* Controller[T].Get
Get(id) ==
    /\ pc = "idle"
    /\ LET ctx == NextCtx(cur.ctx)
           q == IF id = "" THEN EmptyValues ELSE IdQuery(<<id>>)
           r == RepoRead(QueryGet(q, ":id"))
       IN  /\ cur' = Request("Get", TRUE, ctx, q, TextEmpty)
           /\ calls' = << [fn |-> "Read", ctx |-> ctx, id |-> QueryGet(q, ":id"), err |-> r.err] >>
           /\ resp' = GetRespond(NewRecorder, QueryGet(q, ":id"), r)
    /\ data0' = data
    /\ UNCHANGED <<data, seq, err, pc, entities, parseIn, parseOut, callers, saved>>

\* GetAll going on with the options parseOptions returned, error or not
GetAllRead_IgnoreParseError(q) ==
    /\ pc = "idle"
    /\ cur' = Request("GetAll", TRUE, NextCtx(cur.ctx), q, TextEmpty)
    /\ data0' = data
    /\ \E po \in {parseOptions(q, oor) : oor \in FloatToIntOutcomes} :
       \E o \in RangeOrders :
            LET ctx == NextCtx(cur.ctx)
                r   == RepoReadAll(o)
            IN  /\ calls' = << [fn |-> "ReadAll", ctx |-> ctx, options |-> po.options,
                                list |-> r.list, err |-> r.err] >>
                /\ IF r.err = Nil
                   THEN /\ pc' = "GetAllCount"
                        /\ entities' = r.list
                        /\ resp' = NewRecorder
                   ELSE /\ resp' = GetAllRespondErr(NewRecorder, r.err)
                        /\ UNCHANGED <<pc, entities>>
    /\ UNCHANGED <<data, seq, err, parseIn, parseOut, callers, saved>>

\* Controller[T].GetAll up to the return of ReadAll
GetAllRead(q) ==
    /\ pc = "idle"
    /\ cur' = Request("GetAll", TRUE, NextCtx(cur.ctx), q, TextEmpty)
    /\ data0' = data
    /\ \E po \in {parseOptions(q, oor) : oor \in FloatToIntOutcomes} :
       LET ctx == NextCtx(cur.ctx)
       IN
       IF po.panic
       THEN \* the panic of parseFilters unwinds GetAll: nothing is written
            /\ resp' = NewRecorder
            /\ calls' = << >>
            /\ UNCHANGED <<pc, entities>>
       ELSE IF ~po.ok
       THEN /\ resp' = RespondWithError(NewRecorder, 400, ErrorText(po.err))
            /\ calls' = << >>
            /\ UNCHANGED <<pc, entities>>
       ELSE \E o \in RangeOrders :
            LET r == RepoReadAll(o)
            IN  /\ calls' = << [fn |-> "ReadAll", ctx |-> ctx, options |-> po.options,
                                list |-> r.list, err |-> r.err] >>
                /\ IF r.err = Nil
                   THEN /\ pc' = "GetAllCount"
                        /\ entities' = r.list
                        /\ resp' = NewRecorder
                   ELSE /\ resp' = GetAllRespondErr(NewRecorder, r.err)
                        /\ UNCHANGED <<pc, entities>>
    /\ UNCHANGED <<data, seq, err, parseIn, parseOut, callers, saved>>

\* GetAllCount calling Count without the parsed options
GetAllCount_NoOptions ==
    /\ pc = "GetAllCount"
    /\ LET c == RepoCount
       IN  /\ calls' = Append(calls, [fn |-> "Count", ctx |-> cur.ctx, options |-> ZeroOptions,
                                      count |-> c.count, err |-> c.err])
           /\ resp' = GetAllRespondOK(resp, entities, c.count)
    /\ pc' = "idle"
    /\ entities' = NilSlice
    /\ UNCHANGED <<data, seq, err, cur, data0, parseIn, parseOut, callers, saved>>

\* GetAllCount answering an error of Count the way it answers one of ReadAll
GetAllCount_FailOnCountError ==
    /\ pc = "GetAllCount"
    /\ LET c == RepoCount
       IN  /\ calls' = Append(calls, [fn |-> "Count", ctx |-> cur.ctx, options |-> calls[1].options,
                                      count |-> c.count, err |-> c.err])
           /\ resp' = IF c.err = Nil THEN GetAllRespondOK(resp, entities, c.count)
                      ELSE GetAllRespondErr(resp, c.err)
    /\ pc' = "idle"
    /\ entities' = NilSlice
    /\ UNCHANGED <<data, seq, err, cur, data0, parseIn, parseOut, callers, saved>>

\* Controller[T].GetAll from the call of Count to the response
GetAllCount ==
    /\ pc = "GetAllCount"
    /\ LET c == RepoCount
       IN  /\ calls' = Append(calls, [fn |-> "Count", ctx |-> cur.ctx, options |-> calls[1].options,
                                      count |-> c.count, err |-> c.err])
           /\ resp' = GetAllRespondOK(resp, entities, c.count)
    /\ pc' = "idle"
    /\ entities' = NilSlice
    /\ UNCHANGED <<data, seq, err, cur, data0, parseIn, parseOut, callers, saved>>

\* Post going on to Save when the body did not decode
Post_IgnoreDecodeError(p, body) ==
    /\ pc = "idle"
    /\ seq < MaxSeq
    /\ cur' = Request("Post", p, NextCtx(cur.ctx), EmptyValues, body)
    /\ data0' = data
    /\ IF ~p
       THEN /\ resp' = MethodNotAllowed(NewRecorder)
            /\ calls' = << >>
            /\ UNCHANGED <<data, seq>>
       ELSE LET d == DecodeModel(body)
                r == RepoSave(d.entity)
                ctx == NextCtx(cur.ctx)
            IN  /\ calls' = << [fn |-> "Save", ctx |-> ctx, entity |-> d.entity,
                                id |-> r.id, err |-> r.err] >>
                /\ resp' = PostRespond(NewRecorder, r.id, r.err)
                /\ data' = r.data
                /\ seq' = r.seq
    /\ UNCHANGED <<err, pc, entities, parseIn, parseOut, callers, saved>>

\* Controller[T].Post
Post(p, body) ==
    /\ pc = "idle"
    /\ seq < MaxSeq
    /\ cur' = Request("Post", p, NextCtx(cur.ctx), EmptyValues, body)
    /\ data0' = data
    /\ IF ~p
       THEN /\ resp' = MethodNotAllowed(NewRecorder)
            /\ calls' = << >>
            /\ UNCHANGED <<data, seq>>
       ELSE LET d == DecodeModel(body) IN
            IF ~d.ok
            THEN /\ resp' = InvalidPayload(NewRecorder)
                 /\ calls' = << >>
                 /\ UNCHANGED <<data, seq>>
            ELSE LET r == RepoSave(d.entity)
                     ctx == NextCtx(cur.ctx)
                 IN  /\ calls' = << [fn |-> "Save", ctx |-> ctx, entity |-> d.entity,
                                     id |-> r.id, err |-> r.err] >>
                     /\ resp' = PostRespond(NewRecorder, r.id, r.err)
                     /\ data' = r.data
                     /\ seq' = r.seq
    /\ UNCHANGED <<err, pc, entities, parseIn, parseOut, callers, saved>>

\* Controller[T].Put up to the return of Update
PutUpdate(p, id, body) ==
    /\ pc = "idle"
    /\ cur' = Request("Put", p, NextCtx(cur.ctx), IF id = "" THEN EmptyValues ELSE IdQuery(<<id>>), body)
    /\ data0' = data
    /\ IF ~p
       THEN /\ resp' = MethodNotAllowed(NewRecorder)
            /\ calls' = << >>
            /\ UNCHANGED <<data, pc>>
       ELSE LET d == DecodeModel(body)
                f == getFieldNames(body)
            IN
            IF ~d.ok \/ ~f.ok
            THEN /\ resp' = InvalidPayload(NewRecorder)
                 /\ calls' = << >>
                 /\ UNCHANGED <<data, pc>>
            ELSE LET r == RepoUpdate(id, d.entity, f.fields)
                     ctx == NextCtx(cur.ctx)
                 IN  /\ calls' = << [fn |-> "Update", ctx |-> ctx, id |-> id,
                                     entity |-> d.entity, fields |-> f.fields,
                                     err |-> r.err] >>
                     /\ data' = r.data
                     /\ IF r.err = Nil
                        THEN /\ pc' = "PutGet"
                             /\ resp' = NewRecorder
                        ELSE /\ resp' = PutRespondErr(NewRecorder, r.err)
                             /\ UNCHANGED pc
    /\ UNCHANGED <<seq, err, entities, parseIn, parseOut, callers, saved>>

\* PutGet reading the record back under a context of its own
PutGet_FreshContext ==
    /\ pc = "PutGet"
    /\ LET id == QueryGet(cur.query, ":id")
           r  == RepoRead(id)
       IN  /\ calls' = Append(calls, [fn |-> "Read", ctx |-> "background", id |-> id, err |-> r.err])
           /\ resp' = GetRespond(resp, id, r)
    /\ pc' = "idle"
    /\ UNCHANGED <<data, seq, err, cur, entities, data0, parseIn, parseOut, callers, saved>>

\* Controller[T].Put after a successful Update: c.Get(w, r)
PutGet ==
    /\ pc = "PutGet"
    /\ LET id == QueryGet(cur.query, ":id")
           r  == RepoRead(id)
       IN  /\ calls' = Append(calls, [fn |-> "Read", ctx |-> cur.ctx, id |-> id, err |-> r.err])
           /\ resp' = GetRespond(resp, id, r)
    /\ pc' = "idle"
    /\ UNCHANGED <<data, seq, err, cur, entities, data0, parseIn, parseOut, callers, saved>>

\* Delete without the Persistable check
Delete_NoCapabilityCheck(p, ids) ==
    /\ pc = "idle"
    /\ cur' = Request("Delete", p, NextCtx(cur.ctx), IdQuery(ids), TextEmpty)
    /\ data0' = data
    /\ LET r == RepoDelete(QueryValues(IdQuery(ids), ":id"))
           ctx == NextCtx(cur.ctx)
       IN  /\ calls' = << [fn |-> "Delete", ctx |-> ctx, ids |-> ids, err |-> r.err] >>
           /\ resp' = DeleteRespond(NewRecorder, ids, r.err)
           /\ data' = r.data
    /\ UNCHANGED <<seq, err, pc, entities, parseIn, parseOut, callers, saved>>

\* Controller[T].Delete
Delete(p, ids) ==
    /\ pc = "idle"
    /\ cur' = Request("Delete", p, NextCtx(cur.ctx), IdQuery(ids), TextEmpty)
    /\ data0' = data
    /\ IF ~p
       THEN /\ resp' = MethodNotAllowed(NewRecorder)
            /\ calls' = << >>
            /\ UNCHANGED data
       ELSE LET r == RepoDelete(QueryValues(IdQuery(ids), ":id"))
                ctx == NextCtx(cur.ctx)
            IN  /\ calls' = << [fn |-> "Delete", ctx |-> ctx, ids |-> ids, err |-> r.err] >>
                /\ resp' = DeleteRespond(NewRecorder, ids, r.err)
                /\ data' = r.data
    /\ UNCHANGED <<seq, err, pc, entities, parseIn, parseOut, callers, saved>>

Next ==
    \/ \E e \in ErrInputs : SetError(e)
    \/ \E id \in IdInputs \cup {""} : Get(id)
    \/ \E q \in Queries : GetAllRead(q)
    \/ GetAllCount
    \/ \E p \in BOOLEAN, body \in Bodies : Post(p, body)
    \/ \E p \in BOOLEAN, id \in IdInputs, body \in Bodies : PutUpdate(p, id, body)
    \/ PutGet
    \/ \E p \in BOOLEAN, ids \in IdLists : Delete(p, ids)

Spec == Init /\ [][Next]_vars

---------------------------------------------------------------------------
(* parseOptions on its own: every query of ParseInputs is parsed once *)

InitParse ==
    /\ data = [k \in {} |-> ZeroModel]
    /\ seq = 0
    /\ err = Nil
    /\ pc = "idle"
    /\ cur = NoRequest
    /\ entities = NilSlice
    /\ calls = << >>
    /\ resp = NewRecorder
    /\ data0 = [k \in {} |-> ZeroModel]
    /\ parseIn \in ParseInputs
    /\ parseOut = NotParsed
    /\ callers = [c \in Goroutines |-> Idle]
    /\ saved = << >>

\* options, err := c.parseOptions(r.URL.Query())
ParseOptions ==
    /\ ~parseOut.done
    /\ \E oor \in FloatToIntOutcomes :
           parseOut' = [done |-> TRUE, r |-> parseOptions(parseIn, oor)]
    /\ UNCHANGED <<data, seq, err, pc, cur, entities, calls, resp, data0, parseIn, callers, saved>>

NextParse == ParseOptions

SpecParse == InitParse /\ [][NextParse]_vars

---------------------------------------------------------------------------
(* Concurrent use of PersistableSampleRepository.  The goroutine Handler
   serves one request of the controller; the goroutines of Callers make the
   repository calls of everybody else (the Save, Update and Delete calls of
   other requests being served at the same time included).  A step is one
   atomic operation on seq or on the sync.Map (Add, Load, LoadOrStore,
   Store, Delete, one entry met by Range) together with the local
   computation around it; callers[c] is the position of goroutine c inside
   the call it is making.  SetError is not called, so r.error() yields the
   same in every step of a call and is read with the call's first step. *)

HandlerVars == <<pc, cur, entities, calls, resp, data0>>

\* the entity the callers save and the one they update with
SaveInput   == [ID |-> "7", Name |-> "Joe", Age |-> 30]
UpdateInput == [ID |-> "2", Name |-> "Ann", Age |-> 31]

\* the field names the callers pass to Update
ColsInputs == { {}, {"name"} }

\* the ids the callers pass to Update and, as lists, to Delete
CallerIds     == {"1", "2"}
CallerIdLists == { <<"1">>, <<"2", "1">> }

\* the bodies of the Put requests handled next to the callers: a whole
\* record as json.Marshal writes it (keys ID, Name, Age), and two fields
\* under the names Update knows
PutBodies ==
    { ModelBody("1", "Not Joe", 31),
      TextJSON(JObj([name |-> JStr("Ann"), age |-> JNum(31)])) }

\* the keys the sync.Map can hold
Keys == {FormatInt(n) : n \in 1..MaxSeq}

\* the calls the goroutines of Callers make
CallerCalls ==
    {[at |-> "Save", entity |-> SaveInput]}
    \cup {[at |-> "Update", id |-> id, entity |-> UpdateInput, cols |-> cols] :
             id \in CallerIds, cols \in ColsInputs}
    \cup {[at |-> "Delete", ids |-> ids, i |-> 1] : ids \in CallerIdLists}

\* the Save calls that have not taken their number yet
Pending == Cardinality({c \in Goroutines : callers[c].at = "Save"})

\* a goroutine of Callers enters a call
Call(c, call) ==
    /\ callers[c] = Idle
    /\ call.at = "Save" => seq + Pending < MaxSeq
    /\ callers' = [callers EXCEPT ![c] = call]
    /\ UNCHANGED <<data, seq, err, parseIn, parseOut, saved>>
    /\ UNCHANGED HandlerVars

\* the handler going on after the repository call it made has returned r
HandlerReturn(r) ==
    /\ callers' = [callers EXCEPT ![Handler] =
                       IF pc = "ReadAll"
                       THEN [at |-> "Range", seen |-> {}, list |-> << >>]
                       ELSE Idle]
    /\ CASE pc = "ReadAll" ->
                /\ calls' = << [fn |-> "ReadAll", ctx |-> cur.ctx,
                                options |-> callers[Handler].options,
                                list |-> r.list, err |-> Nil] >>
                /\ pc' = "Count"
                /\ entities' = r.list
                /\ UNCHANGED resp
         [] pc = "Count" ->
                /\ calls' = Append(calls, [fn |-> "Count", ctx |-> cur.ctx,
                                           options |-> calls[1].options,
                                           count |-> r.count, err |-> RepoError])
                /\ resp' = GetAllRespondOK(resp, entities, r.count)
                /\ pc' = "idle"
                /\ entities' = NilSlice
         [] pc = "Update" ->
                /\ calls' = << [fn |-> "Update", ctx |-> cur.ctx,
                                id |-> QueryGet(cur.query, ":id"),
                                entity |-> DecodeModel(cur.body).entity,
                                fields |-> getFieldNames(cur.body).fields,
                                err |-> r.err, changed |-> r.changed] >>
                /\ IF r.err = Nil
                   THEN /\ pc' = "PutGet"
                        /\ UNCHANGED resp
                   ELSE /\ resp' = PutRespondErr(resp, r.err)
                        /\ pc' = "idle"
                /\ UNCHANGED entities
         [] pc = "Save" ->
                /\ calls' = << [fn |-> "Save", ctx |-> cur.ctx,
                                entity |-> DecodeModel(cur.body).entity,
                                id |-> r.id, err |-> r.err, changed |-> r.changed] >>
                /\ resp' = PostRespond(resp, r.id, r.err)
                /\ pc' = "idle"
                /\ UNCHANGED entities
         [] pc = "Delete" ->
                /\ calls' = << [fn |-> "Delete", ctx |-> cur.ctx,
                                ids |-> QueryValues(cur.query, ":id"),
                                err |-> r.err, changed |-> r.changed] >>
                /\ resp' = DeleteRespond(resp, QueryValues(cur.query, ":id"), r.err)
                /\ pc' = "idle"
                /\ UNCHANGED entities
    /\ UNCHANGED <<cur, data0>>

\* goroutine c returns r from its call
Return(c, r) ==
    IF c = Handler THEN HandlerReturn(r)
    ELSE /\ callers' = [callers EXCEPT ![c] = Idle]
         /\ UNCHANGED HandlerVars

\* goroutine c moves on to position p of its call
Goto(c, p) ==
    /\ callers' = [callers EXCEPT ![c] = p]
    /\ UNCHANGED HandlerVars

\* Save up to entity.ID = strconv.FormatInt(r.seq.Add(1), 10)
SaveAdd(c) ==
    /\ callers[c].at = "Save"
    /\ IF RepoError # Nil
       THEN /\ Return(c, [id |-> "", err |-> RepoError, changed |-> FALSE])
            /\ UNCHANGED seq
       ELSE /\ seq' = seq + 1
            /\ Goto(c, [at |-> "SaveStore",
                        entity |-> [callers[c].entity EXCEPT !.ID = FormatInt(seq + 1)]])
    /\ UNCHANGED <<data, err, parseIn, parseOut, saved>>

\* Save storing under the number seq holds by now, whatever is there
SaveStore_RereadSeq(c) ==
    /\ callers[c].at = "SaveStore"
    /\ LET id == FormatInt(seq)
       IN  /\ data' = (id :> [callers[c].entity EXCEPT !.ID = id]) @@ data
           /\ saved' = Append(saved, id)
           /\ Return(c, [id |-> id, err |-> Nil, changed |-> TRUE])
    /\ UNCHANGED <<seq, err, parseIn, parseOut>>

\* Save from r.data.LoadOrStore(entity.ID, *entity) to its return
SaveStore(c) ==
    /\ callers[c].at = "SaveStore"
    /\ LET entity == callers[c].entity
       IN  IF entity.ID \in DOMAIN data
           THEN /\ Return(c, [id |-> "", err |-> ErrExists, changed |-> FALSE])
                /\ UNCHANGED <<data, saved>>
           ELSE /\ data' = (entity.ID :> entity) @@ data
                /\ saved' = Append(saved, entity.ID)
                /\ Return(c, [id |-> entity.ID, err |-> Nil, changed |-> TRUE])
    /\ UNCHANGED <<seq, err, parseIn, parseOut>>

\* Update's local record taking the submitted entity as it is
UpdateLoad_KeepEntityID(c) ==
    /\ callers[c].at = "Update"
    /\ LET id     == callers[c].id
           entity == callers[c].entity
           cols   == callers[c].cols
       IN  IF id \notin DOMAIN data
           THEN Return(c, [err |-> ErrNotFound, changed |-> FALSE])
           ELSE LET current == data[id]
                    updated == IF cols = {} THEN entity
                               ELSE [ID   |-> current.ID,
                                     Name |-> IF "name" \in cols THEN entity.Name
                                              ELSE current.Name,
                                     Age  |-> IF "age" \in cols THEN entity.Age
                                              ELSE current.Age]
                IN  Goto(c, [at |-> "UpdateStore", id |-> id, current |-> updated])
    /\ UNCHANGED <<data, seq, err, parseIn, parseOut, saved>>

\* Update from r.data.Load(id) to the record it is about to store
UpdateLoad(c) ==
    /\ callers[c].at = "Update"
    /\ LET id     == callers[c].id
           entity == callers[c].entity
           cols   == callers[c].cols
       IN  IF RepoError # Nil
           THEN Return(c, [err |-> RepoError, changed |-> FALSE])
           ELSE IF id \notin DOMAIN data
           THEN Return(c, [err |-> ErrNotFound, changed |-> FALSE])
           ELSE LET current == data[id]
                    updated == IF cols = {} THEN [entity EXCEPT !.ID = id]
                               ELSE [ID   |-> current.ID,
                                     Name |-> IF "name" \in cols THEN entity.Name
                                              ELSE current.Name,
                                     Age  |-> IF "age" \in cols THEN entity.Age
                                              ELSE current.Age]
                IN  Goto(c, [at |-> "UpdateStore", id |-> id, current |-> updated])
    /\ UNCHANGED <<data, seq, err, parseIn, parseOut, saved>>

\* Update's r.data.Store(id, current): the entry is written, present or not
UpdateStore(c) ==
    /\ callers[c].at = "UpdateStore"
    /\ LET id      == callers[c].id
           current == callers[c].current
       IN  /\ data' = (id :> current) @@ data
           /\ Return(c, [err |-> Nil,
                         changed |-> id \notin DOMAIN data \/ data[id] # current])
    /\ UNCHANGED <<seq, err, parseIn, parseOut, saved>>

\* Delete's first loop: one r.data.Load(id)
DeleteLoad(c) ==
    /\ callers[c].at = "Delete"
    /\ LET ids == callers[c].ids
           i   == callers[c].i
       IN  IF i = 1 /\ RepoError # Nil
           THEN Return(c, [err |-> RepoError, changed |-> FALSE])
           ELSE IF ids = << >>
           THEN Return(c, [err |-> Nil, changed |-> FALSE])
           ELSE IF ids[i] \notin DOMAIN data
           THEN Return(c, [err |-> ErrNotFound, changed |-> FALSE])
           ELSE IF i < Len(ids)
           THEN Goto(c, [callers[c] EXCEPT !.i = i + 1])
           ELSE Goto(c, [at |-> "DeleteLoop", ids |-> ids, i |-> 1, changed |-> FALSE])
    /\ UNCHANGED <<data, seq, err, parseIn, parseOut, saved>>

\* Delete's second loop: one r.data.Delete(id)
DeleteStep(c) ==
    /\ callers[c].at = "DeleteLoop"
    /\ LET ids     == callers[c].ids
           i       == callers[c].i
           changed == callers[c].changed \/ ids[i] \in DOMAIN data
       IN  /\ data' = [k \in DOMAIN data \ {ids[i]} |-> data[k]]
           /\ IF i = Len(ids)
              THEN Return(c, [err |-> Nil, changed |-> changed])
              ELSE Goto(c, [callers[c] EXCEPT !.i = i + 1, !.changed = changed])
    /\ UNCHANGED <<seq, err, parseIn, parseOut, saved>>

\* r.data.Range of ReadAll and of Count meeting one key.  Range is no
\* snapshot: no key is visited twice, and what Range finds under a key is
\* what the map holds under it at some moment of the Range call, here the
\* moment of the step that takes the key (nothing, when the key is absent).
\* After the last key ReadAll returns the entries met, Count their number.
RangeStep(c) ==
    /\ callers[c].at = "Range"
    /\ \E k \in Keys \ callers[c].seen :
           LET seen == callers[c].seen \cup {k}
               list == IF k \in DOMAIN data THEN Append(callers[c].list, data[k])
                       ELSE callers[c].list
           IN  IF seen # Keys
               THEN Goto(c, [callers[c] EXCEPT !.seen = seen, !.list = list])
               ELSE Return(c, [list |-> GoSlice(list), count |-> Len(list)])
    /\ UNCHANGED <<data, seq, err, parseIn, parseOut, saved>>

\* Controller[T].GetAll up to ReadAll's call of Range
GetAllCall(q) ==
    /\ pc = "idle"
    /\ cur' = Request("GetAll", TRUE, NextCtx(cur.ctx), q, TextEmpty)
    /\ \E po \in {parseOptions(q, oor) : oor \in FloatToIntOutcomes} :
           IF po.panic
           THEN /\ resp' = NewRecorder
                /\ calls' = << >>
                /\ UNCHANGED <<pc, callers>>
           ELSE IF ~po.ok
           THEN /\ resp' = RespondWithError(NewRecorder, 400, ErrorText(po.err))
                /\ calls' = << >>
                /\ UNCHANGED <<pc, callers>>
           ELSE IF RepoError # Nil
           THEN \* ReadAll is called and returns nil and the error set
                /\ calls' = << [fn |-> "ReadAll", ctx |-> NextCtx(cur.ctx),
                                options |-> po.options, list |-> NilSlice,
                                err |-> RepoError] >>
                /\ resp' = GetAllRespondErr(NewRecorder, RepoError)
                /\ UNCHANGED <<pc, callers>>
           ELSE /\ resp' = NewRecorder
                /\ calls' = << >>
                /\ pc' = "ReadAll"
                /\ callers' = [callers EXCEPT ![Handler] =
                                   [at |-> "Range", seen |-> {}, list |-> << >>,
                                    options |-> po.options]]
    /\ UNCHANGED <<data, seq, err, entities, data0, parseIn, parseOut, saved>>

\* Controller[T].Put up to its call of Update
PutCall(p, id, body) ==
    /\ pc = "idle"
    /\ cur' = Request("Put", p, NextCtx(cur.ctx),
                      IF id = "" THEN EmptyValues ELSE IdQuery(<<id>>), body)
    /\ calls' = << >>
    /\ IF ~p
       THEN /\ resp' = MethodNotAllowed(NewRecorder)
            /\ UNCHANGED <<pc, callers>>
       ELSE LET d == DecodeModel(body)
                f == getFieldNames(body)
            IN  IF ~d.ok \/ ~f.ok
                THEN /\ resp' = InvalidPayload(NewRecorder)
                     /\ UNCHANGED <<pc, callers>>
                ELSE /\ resp' = NewRecorder
                     /\ pc' = "Update"
                     /\ callers' = [callers EXCEPT ![Handler] =
                                        [at |-> "Update", id |-> id,
                                         entity |-> d.entity, cols |-> f.fields]]
    /\ UNCHANGED <<data, seq, err, entities, data0, parseIn, parseOut, saved>>

\* Controller[T].Post up to its call of Save
PostCall(p, body) ==
    /\ pc = "idle"
    /\ seq + Pending < MaxSeq
    /\ cur' = Request("Post", p, NextCtx(cur.ctx), EmptyValues, body)
    /\ calls' = << >>
    /\ IF ~p
       THEN /\ resp' = MethodNotAllowed(NewRecorder)
            /\ UNCHANGED <<pc, callers>>
       ELSE LET d == DecodeModel(body)
            IN  IF ~d.ok
                THEN /\ resp' = InvalidPayload(NewRecorder)
                     /\ UNCHANGED <<pc, callers>>
                ELSE /\ resp' = NewRecorder
                     /\ pc' = "Save"
                     /\ callers' = [callers EXCEPT ![Handler] =
                                        [at |-> "Save", entity |-> d.entity]]
    /\ UNCHANGED <<data, seq, err, entities, data0, parseIn, parseOut, saved>>

\* Controller[T].Delete up to its call of the repository's Delete
DeleteCall(p, ids) ==
    /\ pc = "idle"
    /\ cur' = Request("Delete", p, NextCtx(cur.ctx), IdQuery(ids), TextEmpty)
    /\ calls' = << >>
    /\ IF ~p
       THEN /\ resp' = MethodNotAllowed(NewRecorder)
            /\ UNCHANGED <<pc, callers>>
       ELSE /\ resp' = NewRecorder
            /\ pc' = "Delete"
            /\ callers' = [callers EXCEPT ![Handler] =
                               [at |-> "Delete", ids |-> QueryValues(IdQuery(ids), ":id"),
                                i |-> 1]]
    /\ UNCHANGED <<data, seq, err, entities, data0, parseIn, parseOut, saved>>

\* the repository called by the goroutines of Callers and by nobody else
NextRepo ==
    \/ \E c \in Callers, call \in CallerCalls : Call(c, call)
    \/ \E c \in Callers : SaveAdd(c)
    \/ \E c \in Callers : SaveStore(c)
    \/ \E c \in Callers : UpdateLoad(c)
    \/ \E c \in Callers : UpdateStore(c)
    \/ \E c \in Callers : DeleteLoad(c)
    \/ \E c \in Callers : DeleteStep(c)

SpecRepo == Init /\ [][NextRepo]_vars

\* the goroutines of the requests handled while goroutine "a" calls the
\* repository
Running == {Handler, "a"}

\* the controller handling a request while goroutine "a" saves, updates and
\* deletes
NextConc ==
    \/ \E call \in CallerCalls : Call("a", call)
    \/ GetAllCall(EmptyValues)
    \/ \E id \in CallerIds, body \in PutBodies : PutCall(TRUE, id, body)
    \/ PostCall(TRUE, ModelBody("0", "Joe", 30))
    \/ \E ids \in CallerIdLists : DeleteCall(TRUE, ids)
    \/ \E c \in Running : SaveAdd(c)
    \/ \E c \in Running : SaveStore(c)
    \/ \E c \in Running : UpdateLoad(c)
    \/ \E c \in Running : UpdateStore(c)
    \/ \E c \in Running : DeleteLoad(c)
    \/ \E c \in Running : DeleteStep(c)
    \/ RangeStep(Handler)
    \/ PutGet

SpecConc == Init /\ [][NextConc]_vars

---------------------------------------------------------------------------
(* The earlier, non-generic Controller (controller.go) over the earlier
   SampleRepository, whose ids are int64 and whose Error field the caller
   sets.  The repository state is again (data, seq, err). *)

OldZeroModel == [ID |-> 0, Name |-> "", Age |-> 0]

\* Repository.EntityName of the earlier SampleRepository
OldEntityName == "sample"

\* SampleRepository.Read
OldRead(id) ==
    IF err # Nil THEN [entity |-> GoNil, err |-> err]
    ELSE IF id \in DOMAIN data THEN [entity |-> GoOldModel(data[id]), err |-> Nil]
    ELSE [entity |-> GoNil, err |-> ErrNotFound]

\* SampleRepository.ReadAll, the map being ranged over in order o
OldReadAll(o) ==
    IF err # Nil THEN [list |-> GoNil, err |-> err]
    ELSE [list |-> GoOldSlice([i \in DOMAIN o |-> data[o[i]]]), err |-> Nil]

\* SampleRepository.Count
OldCount == [count |-> Cardinality(DOMAIN data), err |-> err]

\* SampleRepository.Save
OldSave(rec) ==
    IF err # Nil THEN [id |-> 0, err |-> err, data |-> data, seq |-> seq]
    ELSE IF seq + 1 \in DOMAIN data
    THEN [id |-> -1, err |-> ErrExists, data |-> data, seq |-> seq + 1]
    ELSE [id |-> seq + 1, err |-> Nil,
          data |-> ((seq + 1) :> [rec EXCEPT !.ID = seq + 1]) @@ data, seq |-> seq + 1]

\* SampleRepository.Update
OldUpdate(rec) ==
    IF err # Nil THEN [err |-> err, data |-> data]
    ELSE IF rec.ID \notin DOMAIN data THEN [err |-> ErrNotFound, data |-> data]
    ELSE [err |-> Nil, data |-> [data EXCEPT ![rec.ID] = rec]]

\* SampleRepository.Delete
OldDelete(id) ==
    IF err # Nil THEN [err |-> err, data |-> data]
    ELSE IF id \notin DOMAIN data THEN [err |-> ErrNotFound, data |-> data]
    ELSE [err |-> Nil, data |-> [k \in DOMAIN data \ {id} |-> data[k]]]

\* decoder.Decode(entity) into the earlier SampleModel
OldDecodeModel(text) ==
    IF text.scan # "value" THEN [ok |-> FALSE, entity |-> OldZeroModel]
    ELSE IF text.value.t = "null" THEN [ok |-> TRUE, entity |-> OldZeroModel]
    ELSE IF text.value.t # "object" THEN [ok |-> FALSE, entity |-> OldZeroModel]
    ELSE LET id   == FieldValue(text.value.fields, "id")
             name == FieldValue(text.value.fields, "name")
             age  == FieldValue(text.value.fields, "age")
         IN  IF \/ id.t \notin {"null", "number"}
                \/ name.t \notin {"null", "string"}
                \/ age.t \notin {"null", "number"}
             THEN [ok |-> FALSE, entity |-> OldZeroModel]
             ELSE [ok |-> TRUE,
                   entity |-> [ID   |-> IF id.t = "number" THEN id.n ELSE 0,
                               Name |-> IF name.t = "string" THEN name.s ELSE "",
                               Age  |-> IF age.t = "number" THEN age.n ELSE 0]]

\* int64(id) for the id strconv.Atoi returned, as a number
OldId(text) == LET n == Atoi(text) IN n.m * Limb + n.l

\* Controller.parseFilters: a '_filters' text that does not decode is passed
\* over, and a key contributes its first value
OldParseFilters(params) ==
    LET text  == QueryUnescape(QueryGetText(params, "_filters"))
        m     == IF text.scan = "value" /\ ~text.trailing /\ text.value.t = "object"
                 THEN text.value.fields ELSE EmptyMap
        plain == {k \in DOMAIN params : ~HasUnderscorePrefix(k)}
    IN  [k \in DOMAIN m \cup plain |-> IF k \in plain THEN JStr(params[k][1]) ELSE m[k]]

\* Controller.parseFilters assigning to an entry of the map that the JSON
\* null has set to nil: the goroutine panics
OldFiltersPanic(params) ==
    /\ decodeFilters(params).nilmap
    /\ \E k \in DOMAIN params : ~HasUnderscorePrefix(k)

\* Controller.parseOptions
OldParseOptions(params, oor) ==
    LET start == Atoi(QueryGet(params, "_start"))
        end   == Atoi(QueryGet(params, "_end"))
    IN  [Sort    |-> QueryGet(params, "_sort"),
         Order   |-> ToLower(QueryGet(params, "_order")),
         Offset  |-> start,
         Max     |-> Max0(I64Sub(end, start), oor),
         Filters |-> OldParseFilters(params)]

\* the values of ':id', the bodies, the queries and the errors of the
\* requests to the earlier Controller
OldIdTexts == { <<"1">>, <<"2">>, <<"9", "9", "9">>, <<"a", "b", "c">> }
OldBodies  == { TextGarbage,
                TextJSON(OldMarshalModel([ID |-> 0, Name |-> "John Doe", Age |-> 33])),
                TextJSON(OldMarshalModel([ID |-> 1, Name |-> "John", Age |-> 31])) }
OldQueries == { EmptyValues,
                ("_start" :> << <<"0">> >>) @@ ("_end" :> << <<"1">> >>),
                ("_filters" :> <<TextGarbage>>) @@ ("name" :> <<"Joe">>) }
OldErrors  == { Nil, ErrNotFound, ErrUnknown }

\* repo.Error = e; the exchange recorded before is dropped
OldSetError(e) ==
    /\ err' = e
    /\ cur' = [NoRequest EXCEPT !.ctx = cur.ctx]
    /\ calls' = << >>
    /\ resp' = NewRecorder
    /\ data0' = data
    /\ UNCHANGED <<data, seq, pc, entities, parseIn, parseOut, callers, saved>>

\* Controller.Get
OldGet(text) ==
    /\ LET id == OldId(text)
           r  == OldRead(id)
       IN  /\ calls' = << [fn |-> "Read", id |-> id, err |-> r.err] >>
           /\ resp' = IF r.err = ErrNotFound
                      THEN RespondWithError(NewRecorder, 404,
                               OldEntityName \o "(id:" \o FormatInt(id) \o ") not found")
                      ELSE IF r.err # Nil
                      THEN RespondWithError(NewRecorder, 500, ErrorText(r.err))
                      ELSE RespondWithJSON(NewRecorder, 200, r.entity)
    /\ cur' = Request("Get", TRUE, NextCtx(cur.ctx), ":id" :> <<text>>, TextEmpty)
    /\ data0' = data
    /\ UNCHANGED <<data, seq, err, pc, entities, parseIn, parseOut, callers, saved>>

\* Controller.GetAll: the error answer is not followed by a return
OldGetAll(q) ==
    /\ \E o \in RangeOrders, options \in {OldParseOptions(q, oor) : oor \in FloatToIntOutcomes} :
       IF OldFiltersPanic(q)
       THEN \* the panic unwinds GetAll: nothing is called, nothing written
            /\ calls' = << >>
            /\ resp' = NewRecorder
       ELSE
       LET r  == OldReadAll(o)
           w1 == IF r.err # Nil
                 THEN RespondWithError(NewRecorder, 500, ErrorText(r.err))
                 ELSE NewRecorder
           c  == OldCount
           w2 == SetHeader(w1, "X-Total-Count", FormatInt(c.count))
       IN  /\ calls' = << [fn |-> "ReadAll", options |-> options, err |-> r.err],
                          [fn |-> "Count", options |-> options, count |-> c.count,
                           err |-> c.err] >>
           /\ resp' = RespondWithJSON(w2, 200, r.list)
    /\ cur' = Request("GetAll", TRUE, NextCtx(cur.ctx), q, TextEmpty)
    /\ data0' = data
    /\ UNCHANGED <<data, seq, err, pc, entities, parseIn, parseOut, callers, saved>>

\* Controller.Put
OldPut(body) ==
    /\ LET d == OldDecodeModel(body)
       IN  IF ~d.ok
           THEN /\ resp' = RespondWithError(NewRecorder, 422, "Invalid request payload")
                /\ calls' = << >>
                /\ UNCHANGED data
           ELSE LET r == OldUpdate(d.entity)
                IN  /\ calls' = << [fn |-> "Update", entity |-> d.entity, err |-> r.err] >>
                    /\ data' = r.data
                    /\ resp' = IF r.err = ErrNotFound
                               THEN RespondWithError(NewRecorder, 404,
                                        OldEntityName \o " not found")
                               ELSE IF r.err # Nil
                               THEN RespondWithError(NewRecorder, 500, ErrorText(r.err))
                               ELSE RespondWithJSON(NewRecorder, 200, GoOldModel(d.entity))
    /\ cur' = Request("Put", TRUE, NextCtx(cur.ctx), EmptyValues, body)
    /\ data0' = data
    /\ UNCHANGED <<seq, err, pc, entities, parseIn, parseOut, callers, saved>>

\* Controller.Post
OldPost(body) ==
    /\ seq < MaxSeq
    /\ LET d == OldDecodeModel(body)
       IN  IF ~d.ok
           THEN /\ resp' = RespondWithError(NewRecorder, 422, "Invalid request payload")
                /\ calls' = << >>
                /\ UNCHANGED <<data, seq>>
           ELSE LET r == OldSave(d.entity)
                IN  /\ calls' = << [fn |-> "Save", entity |-> d.entity, id |-> r.id,
                                    err |-> r.err] >>
                    /\ data' = r.data
                    /\ seq' = r.seq
                    /\ resp' = IF r.err # Nil
                               THEN RespondWithError(NewRecorder, 500, ErrorText(r.err))
                               ELSE RespondWithJSON(NewRecorder, 200, GoInt64Map([id |-> r.id]))
    /\ cur' = Request("Post", TRUE, NextCtx(cur.ctx), EmptyValues, body)
    /\ data0' = data
    /\ UNCHANGED <<err, pc, entities, parseIn, parseOut, callers, saved>>

\* Controller.Delete
OldDeleteHandler(text) ==
    /\ LET id == OldId(text)
           r  == OldDelete(id)
       IN  /\ calls' = << [fn |-> "Delete", id |-> id, err |-> r.err] >>
           /\ data' = r.data
           /\ resp' = IF r.err = ErrNotFound
                      THEN RespondWithError(NewRecorder, 404,
                               OldEntityName \o "(id:" \o FormatInt(id) \o ") not found")
                      ELSE IF r.err # Nil
                      THEN RespondWithError(NewRecorder, 500, ErrorText(r.err))
                      ELSE RespondWithJSON(NewRecorder, 200, GoStringMap(EmptyMap))
    /\ cur' = Request("Delete", TRUE, NextCtx(cur.ctx), ":id" :> <<text>>, TextEmpty)
    /\ data0' = data
    /\ UNCHANGED <<seq, err, pc, entities, parseIn, parseOut, callers, saved>>

NextOld ==
    \/ \E e \in OldErrors : OldSetError(e)
    \/ \E text \in OldIdTexts : OldGet(text)
    \/ \E q \in OldQueries : OldGetAll(q)
    \/ \E body \in OldBodies : OldPut(body)
    \/ \E body \in OldBodies : OldPost(body)
    \/ \E text \in OldIdTexts : OldDeleteHandler(text)

SpecOld == Init /\ [][NextOld]_vars

---------------------------------------------------------------------------
(* Vocabulary of the properties *)

\* the handling of cur is over and its response is written
Done(op) == pc = "idle" /\ cur.op = op

\* the id of the request, as Get and Put read it
ReqId == QueryGet(cur.query, ":id")

\* the JSON object {"error": msg}
ErrorBody(msg) == << JObj([error |-> JStr(msg)]) >>

\* the last backend call made for cur that is not GetAll's Count
LastCall == IF calls[Len(calls)].fn = "Count" THEN calls[Len(calls) - 1] ELSE calls[Len(calls)]

IsNotFound(e)         == \E i \in DOMAIN e : e[i] = ErrNotFound[1]
IsPermissionDenied(e) == \E i \in DOMAIN e : e[i] = ErrPermissionDenied[1]
IsValidation(e)       == \E i \in DOMAIN e : e[i].type \in {"ValidationError", "*ValidationError"}

---------------------------------------------------------------------------
(* C1: Get answers 200 with the entity when read succeeds, 404 with
   "<entity>(id:<id>) not found" on ErrNotFound, 403 with
   "Reading <entity>(id:<id>): Permission denied" on ErrPermissionDenied,
   and 500 with the error's text on any other error. *)
C1_GetOutcomes ==
    Done("Get") =>
        /\ Len(calls) = 1 /\ calls[1].fn = "Read" /\ calls[1].id = ReqId
        /\ resp.writes = 1
        /\ LET e == calls[1].err IN
           /\ e = Nil =>
                 /\ resp.status = 200
                 /\ ReqId \in DOMAIN data
                 /\ resp.body = << JObj([ID   |-> JStr(data[ReqId].ID),
                                         Name |-> JStr(data[ReqId].Name),
                                         Age  |-> JNum(data[ReqId].Age)]) >>
           /\ IsNotFound(e) =>
                 /\ resp.status = 404
                 /\ resp.body = ErrorBody("examples.SampleModel(id:" \o ReqId \o ") not found")
           /\ (IsPermissionDenied(e) /\ ~IsNotFound(e)) =>
                 /\ resp.status = 403
                 /\ resp.body = ErrorBody("Reading examples.SampleModel(id:" \o ReqId
                                          \o "): Permission denied")
           /\ (e # Nil /\ ~IsNotFound(e) /\ ~IsPermissionDenied(e)) =>
                 /\ resp.status = 500
                 /\ resp.body = ErrorBody(ErrorText(e))

C1_Witness ==
    /\ Done("Get") /\ ReqId = "999" /\ data0 = << >>
    /\ resp.status = 404
    /\ resp.body = ErrorBody("examples.SampleModel(id:999) not found")

(* C2: on a backend that is not Persistable, Post, Put and Delete answer 405
   whatever the body and ids, call no backend method and leave the records
   as they were. *)
C2_ReadOnlyBackend ==
    (cur.op \in {"Post", "Put", "Delete"} /\ ~cur.persistable) =>
        /\ pc = "idle"
        /\ resp.status = 405
        /\ resp.body = ErrorBody("405 Method Not Allowed")
        /\ calls = << >>
        /\ data = data0

C2_Witness ==
    /\ Done("Put") /\ ~cur.persistable /\ cur.body = TextGarbage
    /\ ReqId = "1" /\ "1" \in DOMAIN data
    /\ resp.status = 405

(* C3: on a Persistable backend, a Post whose body does not decode as the
   entity, and a Put whose body does not decode as the entity or as a JSON
   object, answer 422 {"error":"Invalid request payload"}; save and update are
   not called and no record is added or changed. *)
C3_InvalidPayload ==
    (/\ cur.op \in {"Post", "Put"}
     /\ cur.persistable
     /\ \/ ~DecodeModel(cur.body).ok
        \/ cur.op = "Put" /\ ~getFieldNames(cur.body).ok) =>
        /\ pc = "idle"
        /\ resp.status = 422
        /\ resp.body = ErrorBody("Invalid request payload")
        /\ calls = << >>
        /\ data = data0

C3_Witness ==
    /\ Done("Post") /\ cur.persistable /\ cur.body = TextGarbage
    /\ err = Nil /\ DOMAIN data # {}
    /\ resp.status = 422

\* the JSON object {"errors": m} for a field -> message map m
ErrorsBody(m) == << JObj([errors |-> JObj([k \in DOMAIN m |-> JStr(m[k])])]) >>

\* the field -> message map carried by a ValidationError
CarriedErrors(e) ==
    e[CHOOSE i \in DOMAIN e : e[i].type \in {"ValidationError", "*ValidationError"}].Errors

\* the response body is a JSON object {"error": <string>}
HasErrorBody ==
    /\ Len(resp.body) = 1
    /\ resp.body[1].t = "object"
    /\ DOMAIN resp.body[1].fields = {"error"}
    /\ resp.body[1].fields["error"].t = "string"

(* C4: when save (Post) or update (Put) returns a ValidationError carrying
   the map M, the response is 400 and its body is exactly {"errors": M}. *)
C4_ValidationError ==
    (/\ pc = "idle" /\ cur.op \in {"Post", "Put"} /\ calls # << >>
     /\ calls[1].fn \in {"Save", "Update"}
     /\ IsValidation(calls[1].err)) =>
        /\ resp.status = 400
        /\ resp.body = ErrorsBody(CarriedErrors(calls[1].err))

(* C5: whenever a backend call made by a handler returns ErrNotFound, the
   response is 404. *)
C5_NotFoundIs404 ==
    (/\ pc = "idle" /\ calls # << >>
     /\ IsNotFound(LastCall.err)) =>
        resp.status = 404

(* C6: whenever read, readAll, save, update, Put's follow-up read or delete
   returns ErrPermissionDenied, the response is 403 with a body of the form
   {"error": <message>}. *)
C6_PermissionDenied ==
    (/\ pc = "idle" /\ calls # << >>
     /\ IsPermissionDenied(LastCall.err)) =>
        /\ resp.status = 403
        /\ HasErrorBody

C6_Witness ==
    /\ Done("Put") /\ Len(calls) = 2
    /\ calls[1].fn = "Update" /\ calls[1].err = Nil
    /\ calls[2].fn = "Read" /\ calls[2].err = Wrap("repo", ErrPermissionDenied)
    /\ resp.status = 403
    /\ resp.body = ErrorBody("Reading examples.SampleModel(id:1): Permission denied")

(* C7: a backend error (other than one returned by GetAll's count) that is
   neither ErrNotFound nor ErrPermissionDenied nor a ValidationError yields
   500 with body {"error": <the error's text>}; every backend error falls in
   exactly one class: 404 only for not-found, 403 only for permission-denied,
   400 only for validation, 500 otherwise. *)
C7_Unclassified ==
    (/\ pc = "idle" /\ calls # << >>
     /\ LastCall.err # Nil) =>
        LET e == LastCall.err IN
        /\ (~IsNotFound(e) /\ ~IsPermissionDenied(e) /\ ~IsValidation(e)) =>
               /\ resp.status = 500
               /\ resp.body = ErrorBody(ErrorText(e))
        /\ resp.status \in {400, 403, 404, 500}
        /\ resp.status = 404 => IsNotFound(e)
        /\ resp.status = 403 => IsPermissionDenied(e)
        /\ resp.status = 400 => IsValidation(e)
        /\ resp.writes = 1

C7_Witness ==
    /\ Done("Delete") /\ cur.persistable
    /\ LastCall.fn = "Delete" /\ LastCall.err = ErrUnknown
    /\ resp.status = 500
    /\ resp.body = ErrorBody("unknown error")

(* C8: when a backend call returns ErrInvalidQueryOpts, the response is 400. *)
C8_InvalidQueryOptsIs400 ==
    (/\ pc = "idle" /\ calls # << >>
     /\ LastCall.err = ErrInvalidQueryOpts) =>
        resp.status = 400

(* C9: when readAll succeeds GetAll answers 200 with a JSON array; an empty
   (or nil) result is rendered as [] and never as null, and on an empty
   backend the X-Total-Count header is "0". *)
C9_GetAllArray ==
    (Done("GetAll") /\ calls # << >> /\ calls[1].err = Nil) =>
        /\ resp.status = 200
        /\ Len(resp.body) = 1
        /\ resp.body[1].t = "array"
        /\ (calls[1].list.go = "nilslice" \/ Len(calls[1].list.elems) = 0) =>
               resp.body = << JArr(<< >>) >>
        /\ Len(resp.body[1].items) = Len(calls[1].list.elems)
        /\ DOMAIN data = {} =>
               /\ "X-Total-Count" \in DOMAIN resp.header
               /\ resp.header["X-Total-Count"] = "0"

C9_Witness ==
    /\ Done("GetAll") /\ cur.query = EmptyValues
    /\ DOMAIN data = {} /\ seq > 0
    /\ resp.status = 200
    /\ resp.body = << JArr(<< >>) >>
    /\ resp.header["X-Total-Count"] = "0"

(* C10: on every 200 response of GetAll the X-Total-Count header is the
   decimal string of the value returned by count, count is called with the
   QueryOptions readAll was called with, and the value counts all records
   whatever the pagination window (two records give "2"). *)
C10_TotalCount ==
    (Done("GetAll") /\ resp.status = 200) =>
        /\ Len(calls) = 2
        /\ calls[1].fn = "ReadAll" /\ calls[2].fn = "Count"
        /\ calls[2].options = calls[1].options
        /\ "X-Total-Count" \in DOMAIN resp.header
        /\ resp.header["X-Total-Count"] = FormatInt(calls[2].count)
        /\ calls[2].count = Cardinality(DOMAIN data)
        /\ Cardinality(DOMAIN data) = 2 => resp.header["X-Total-Count"] = "2"

C10_Witness ==
    /\ Done("GetAll") /\ resp.status = 200
    /\ calls[1].options.Offset = I64(0) /\ calls[1].options.Max = I64(1)
    /\ Cardinality(DOMAIN data) = 2
    /\ Len(resp.body[1].items) = 2
    /\ resp.header["X-Total-Count"] = "2"

(* C11: when ReadAll succeeds and Count returns an error, GetAll still
   answers 200 with the list as body: the error of Count changes neither the
   status nor the body.  It is the only backend error a handler swallows:
   every other backend call that returns an error ends in an error status. *)
C11_CountErrorSwallowed ==
    /\ (Done("GetAll") /\ Len(calls) = 2 /\ calls[2].err # Nil) =>
           /\ calls[1].fn = "ReadAll" /\ calls[1].err = Nil /\ calls[2].fn = "Count"
           /\ resp.status = 200
           /\ resp.writes = 1
           /\ resp.body = << IF calls[1].list.go = "nilslice" \/ Len(calls[1].list.elems) = 0
                             THEN JArr(<< >>)
                             ELSE JArr([i \in DOMAIN calls[1].list.elems |->
                                          JObj([ID   |-> JStr(calls[1].list.elems[i].ID),
                                                Name |-> JStr(calls[1].list.elems[i].Name),
                                                Age  |-> JNum(calls[1].list.elems[i].Age)])]) >>
    /\ pc = "idle" =>
           \A i \in DOMAIN calls :
               (calls[i].fn # "Count" /\ calls[i].err # Nil) =>
                   /\ resp.status >= 400
                   /\ HasErrorBody \/ IsValidation(calls[i].err)

C11_Witness ==
    /\ Done("GetAll") /\ Len(calls) = 2
    /\ calls[2].err = ErrUnknown
    /\ Len(calls[1].list.elems) = 2
    /\ resp.status = 200
    /\ Len(resp.body[1].items) = 2

(* C12: a Put over PersistableSampleRepository for an existing id, with a
   body that is the serialisation of a SampleModel (keys ID, Name, Age),
   answers 200 with the record after the update, which carries the submitted
   Name and Age; the record a later Get returns has the same values. *)
C12_PutSerialisedModel ==
    ( /\ Done("Put") /\ cur.persistable
      /\ ReqId \in DOMAIN data0
      /\ cur.body.scan = "value" /\ ~cur.body.trailing
      /\ cur.body.value.t = "object"
      /\ DOMAIN cur.body.value.fields = {"ID", "Name", "Age"}
      /\ Len(calls) = 2 /\ calls[1].err = Nil /\ calls[2].err = Nil ) =>
        /\ resp.status = 200
        /\ resp.body = << JObj([ID   |-> JStr(ReqId),
                                Name |-> cur.body.value.fields["Name"],
                                Age  |-> cur.body.value.fields["Age"]]) >>
        /\ data[ReqId].Name = cur.body.value.fields["Name"].s
        /\ data[ReqId].Age = cur.body.value.fields["Age"].n

(* C13: whenever Put calls update(id, entity, fields...), the set of field
   names it passes is exactly the set of top-level keys of the submitted JSON
   object, whatever their values (null included), and the id is the value of
   the ':id' query key, not the id inside the body.  Every body that is an
   object and decodes reaches update. *)
C13_PutFields ==
    /\ (cur.op = "Put" /\ calls # << >>) =>
           /\ calls[1].fn = "Update"
           /\ calls[1].id = ReqId
           /\ cur.body.scan = "value" /\ ~cur.body.trailing
           /\ calls[1].fields = IF cur.body.value.t = "object"
                                THEN DOMAIN cur.body.value.fields ELSE {}
           /\ cur.body = ModelBody("0", "Joe", 30) =>
                  calls[1].entity.ID = "0" /\ calls[1].id # "0"
    /\ ( /\ Done("Put") /\ cur.persistable
         /\ cur.body.scan = "value" /\ ~cur.body.trailing
         /\ cur.body.value.t = "object"
         /\ resp.status # 422 ) => calls # << >>

C13_Witness ==
    /\ cur.op = "Put" /\ calls # << >>
    /\ cur.body = TextJSON(JObj([name |-> JNull, age |-> JNum(0)]))
    /\ calls[1].fields = {"name", "age"}
    /\ calls[1].id = "2"
    /\ "2" \in DOMAIN data0

\* the ids of the request, as Delete reads them
ReqIds == QueryValues(cur.query, ":id")

\* id has been assigned by Save at some time
Assigned(id) == \E n \in 1..seq : FormatInt(n) = id

(* C14: over a Persistable backend, a Delete whose delete call succeeds
   answers 200 with body {} and every id of the (possibly repeated) ':id' key
   is removed; an id once removed never comes back and a Get of an id that
   is not stored answers 404, so every later Get of a deleted id answers
   404.  When the backend has no error injected, delete succeeds exactly when
   every id exists, and when any id does not exist the answer is 404 and no
   record is removed. *)
C14_Delete ==
    /\ [] ( (Done("Delete") /\ cur.persistable) =>
              /\ calls[1].err = Nil =>
                     /\ resp.status = 200
                     /\ resp.body = << JObj(EmptyMap) >>
                     /\ \A i \in DOMAIN ReqIds :
                            ReqIds[i] \in DOMAIN data0 /\ ReqIds[i] \notin DOMAIN data
                     /\ \A k \in DOMAIN data : k \in DOMAIN data0 /\ data[k] = data0[k]
              /\ (err = Nil /\ \A i \in DOMAIN ReqIds : ReqIds[i] \in DOMAIN data0) =>
                     calls[1].err = Nil
              /\ (err = Nil /\ \E i \in DOMAIN ReqIds : ReqIds[i] \notin DOMAIN data0) =>
                     /\ resp.status = 404
                     /\ data = data0 )
    /\ [] ( (Done("Get") /\ err = Nil /\ ReqId \notin DOMAIN data) => resp.status = 404 )
    /\ [][ \A id \in IdInputs :
             (Assigned(id) /\ id \notin DOMAIN data) => id \notin DOMAIN data' ]_vars

C14_Witness ==
    /\ Done("Delete") /\ cur.persistable
    /\ ReqIds = <<"1", "2">>
    /\ DOMAIN data0 = {"1", "2"}
    /\ DOMAIN data = {}
    /\ resp.status = 200
    /\ resp.body = << JObj(EmptyMap) >>

\* the string / number the posted JSON document gives under one of the keys
\* ks, the zero value when it gives none
PostedStr(ks) ==
    IF cur.body.value.t = "object" /\
       \E k \in ks \cap DOMAIN cur.body.value.fields : cur.body.value.fields[k].t = "string"
    THEN cur.body.value.fields[CHOOSE k \in ks \cap DOMAIN cur.body.value.fields : TRUE].s
    ELSE ""
PostedNum(ks) ==
    IF cur.body.value.t = "object" /\
       \E k \in ks \cap DOMAIN cur.body.value.fields : cur.body.value.fields[k].t = "number"
    THEN cur.body.value.fields[CHOOSE k \in ks \cap DOMAIN cur.body.value.fields : TRUE].n
    ELSE 0

(* C15: after a Post that answers 200 with {"id": X}, the number of records
   has grown by exactly one, the records there were are untouched, and a Get
   with ':id' = X answers 200 with an entity whose Name and Age are the
   posted ones and whose id is X. *)
C15_PostGetRoundTrip ==
    (Done("Post") /\ resp.status = 200) =>
        LET X == calls[1].id
            g == GetRespond(NewRecorder, X, RepoRead(X))
        IN  /\ resp.body = << JObj([id |-> JStr(X)]) >>
            /\ X # ""
            /\ Cardinality(DOMAIN data) = Cardinality(DOMAIN data0) + 1
            /\ DOMAIN data = DOMAIN data0 \cup {X}
            /\ \A k \in DOMAIN data0 : data[k] = data0[k]
            /\ g.status = 200
            /\ g.body = << JObj([ID   |-> JStr(X),
                                 Name |-> JStr(PostedStr({"Name", "name"})),
                                 Age  |-> JNum(PostedNum({"Age", "age"}))]) >>

C15_Witness ==
    /\ Done("Post") /\ resp.status = 200
    /\ cur.body = ModelBody("0", "Joe", 30)
    /\ resp.body = << JObj([id |-> JStr("2")]) >>
    /\ DOMAIN data0 = {"1"}
    /\ data["2"] = [ID |-> "2", Name |-> "Joe", Age |-> 30]

(* C16: every backend call made while a request is handled (Read, ReadAll,
   Count, Save, Update, Delete, and the Read that follows Put's Update)
   receives the context of that request: never the context of another
   request, never a fresh one. *)
C16_RequestContext ==
    /\ \A i \in DOMAIN calls :
           /\ calls[i].ctx = cur.ctx
           /\ calls[i].fn \in {"Read", "ReadAll", "Count", "Save", "Update", "Delete"}
    /\ calls # << >> => cur.ctx \in {"ctxA", "ctxB"}
    /\ [op |-> cur.op, fns |-> [i \in DOMAIN calls |-> calls[i].fn]] \in
           { [op |-> o, fns |-> << >>] : o \in {"none", "GetAll", "Post", "Put", "Delete"} }
           \cup { [op |-> "Get",    fns |-> <<"Read">>],
                  [op |-> "GetAll", fns |-> <<"ReadAll">>],
                  [op |-> "GetAll", fns |-> <<"ReadAll", "Count">>],
                  [op |-> "Post",   fns |-> <<"Save">>],
                  [op |-> "Put",    fns |-> <<"Update">>],
                  [op |-> "Put",    fns |-> <<"Update", "Read">>],
                  [op |-> "Delete", fns |-> <<"Delete">>] }

C16_Witness ==
    /\ Done("Put") /\ Len(calls) = 2
    /\ cur.ctx = "ctxB"
    /\ calls[1].fn = "Update" /\ calls[1].ctx = "ctxB"
    /\ calls[2].fn = "Read" /\ calls[2].ctx = "ctxB"
    /\ resp.status = 200

---------------------------------------------------------------------------
(* Properties of parseOptions, over SpecParse *)

\* parseOptions returned options for parseIn
Parsed == parseOut.done /\ parseOut.r.ok

\* the options parseOptions returned
Options == parseOut.r.options

\* a < b for two ints
IntLess(a, b) ==
    \/ a.h < b.h
    \/ a.h = b.h /\ a.m < b.m
    \/ a.h = b.h /\ a.m = b.m /\ a.l < b.l

\* the integer a - b, exact (the top limb is not reduced)
IntDiff(a, b) ==
    LET l  == a.l - b.l
        bl == IF l < 0 THEN 1 ELSE 0
        m  == a.m - b.m - bl
        bm == IF m < 0 THEN 1 ELSE 0
    IN  [h |-> a.h - b.h - bm, m |-> m + bm * Limb, l |-> l + bl * Limb]

(* C17: with s and e the integer values of '_start' and '_end' (0 when the
   key is absent or is not an integer), parseOptions yields offset = s, and
   max = e - s when e > s, max = 0 when e <= s, for all integers the query
   can carry. *)
C17_Pagination ==
    Parsed =>
        LET s == Atoi(QueryGet(parseIn, "_start"))
            e == Atoi(QueryGet(parseIn, "_end"))
        IN  /\ Options.Offset = s
            /\ Options.Max = IF IntLess(s, e) THEN IntDiff(e, s) ELSE I64(0)

(* C18: every QueryOptions that parseOptions hands to the backend has
   offset >= 0 and max >= 0, and its order is "asc" or "desc", being "asc"
   when '_order' is absent. *)
C18_OptionsInvariant ==
    Parsed =>
        /\ Options.Offset.h >= 0
        /\ Options.Max.h >= 0
        /\ Options.Order \in {"asc", "desc"}
        /\ "_order" \notin DOMAIN parseIn => Options.Order = "asc"

(* C19: parseOptions copies '_sort' verbatim into sort and stores '_order'
   lower-cased in order ("DESC" becomes "desc"); for a query without
   parameters sort is "", order is "", offset is 0, max is 0 and filters is
   empty. *)
C19_SortOrder ==
    Parsed =>
        /\ Options.Sort = IF "_sort" \in DOMAIN parseIn THEN parseIn["_sort"][1] ELSE ""
        /\ "_order" \notin DOMAIN parseIn => Options.Order = ""
        /\ "_order" \in DOMAIN parseIn =>
               Options.Order = CASE parseIn["_order"][1] = "DESC"     -> "desc"
                                 [] parseIn["_order"][1] = "asc"      -> "asc"
                                 [] parseIn["_order"][1] = "sideways" -> "sideways"
        /\ DOMAIN parseIn = {} =>
               Options = [Sort |-> "", Order |-> "",
                          Offset |-> [h |-> 0, m |-> 0, l |-> 0],
                          Max |-> [h |-> 0, m |-> 0, l |-> 0],
                          Filters |-> [k \in {} |-> ""]]

C19_Witness ==
    /\ Parsed
    /\ parseIn = ("_start" :> << <<"1", "0">> >>) @@ ("_end" :> << <<"3", "0">> >>)
                    @@ ("_sort" :> <<"name">>) @@ ("_order" :> <<"DESC">>)
    /\ Options.Sort = "name" /\ Options.Order = "desc"
    /\ Options.Offset = I64(10) /\ Options.Max = I64(20)

\* the keys of parseIn that do not start with '_'
PlainKeys == DOMAIN parseIn \ {"_start", "_end", "_sort", "_order", "_filters", "_limit"}

\* the keys of the JSON object given as '_filters'
JSONKeys ==
    IF "_filters" \in DOMAIN parseIn /\ parseIn["_filters"][1].scan = "value"
       /\ parseIn["_filters"][1].value.t = "object"
    THEN DOMAIN parseIn["_filters"][1].value.fields
    ELSE {}

(* C20: parseOptions folds every query key that does not start with '_'
   into filters: a key with exactly one value maps to that string, a key
   with several values maps to the list of all its values in their order;
   the individual parameters create no other entry (a key starting with '_'
   creates none). *)
C20_FilterFolding ==
    Parsed =>
        /\ \A k \in PlainKeys :
               /\ k \in DOMAIN Options.Filters
               /\ Len(parseIn[k]) = 1 => Options.Filters[k] = JStr(parseIn[k][1])
               /\ Len(parseIn[k]) > 1 =>
                      Options.Filters[k] =
                          JArr([i \in 1..Len(parseIn[k]) |-> JStr(parseIn[k][i])])
        /\ DOMAIN Options.Filters = PlainKeys \cup JSONKeys

C20_Witness ==
    /\ Parsed
    /\ DOMAIN parseIn = {"_limit", "name"}
    /\ parseIn["_limit"] = <<"5">>
    /\ parseIn["name"] = <<"joe", "joe">>
    /\ Options.Filters = [name |-> JArr(<<JStr("joe"), JStr("joe")>>)]

---------------------------------------------------------------------------
\* whether '_filters' of parseIn is the text of one JSON object
FiltersIsObject ==
    /\ "_filters" \in DOMAIN parseIn
    /\ parseIn["_filters"][1].scan = "value"
    /\ ~parseIn["_filters"][1].trailing
    /\ parseIn["_filters"][1].value.t = "object"

\* the JSON object given as '_filters'
FiltersObject == parseIn["_filters"][1].value.fields

(* C21: when '_filters' is the text of a well-formed JSON object,
   parseOptions succeeds and the filters hold every key of the object with
   its value (a key that is also an individual parameter holds the value
   of the parameter). *)
C21_FiltersJSON ==
    (parseOut.done /\ FiltersIsObject) =>
        /\ parseOut.r.ok
        /\ \A k \in DOMAIN FiltersObject \ PlainKeys :
               /\ k \in DOMAIN Options.Filters
               /\ Options.Filters[k] = FiltersObject[k]

---------------------------------------------------------------------------
\* whether '_filters' of parseIn is a text that is not JSON
FiltersIsInvalid ==
    /\ "_filters" \in DOMAIN parseIn
    /\ \/ parseIn["_filters"][1].scan = "garbage"
       \/ parseIn["_filters"][1].scan = "value" /\ parseIn["_filters"][1].trailing

\* parseIn without its '_filters' key
WithoutFilters == [k \in DOMAIN parseIn \ {"_filters"} |-> parseIn[k]]

(* C22 as stated: a '_filters' value that is not JSON is ignored by
   parseOptions, whose result is the result for the same query without
   '_filters'. *)
C22_InvalidFiltersIgnored ==
    (parseOut.done /\ FiltersIsInvalid) =>
        parseOut.r \in {parseOptions(WithoutFilters, oor) : oor \in FloatToIntOutcomes}

(* C22: a '_filters' value that is not JSON makes parseOptions fail: it
   returns the decoding error together with the zero QueryOptions, so that
   nothing of the pagination, the sort and the individual filters of the
   query is handed over. *)
C22_InvalidFiltersFail ==
    (parseOut.done /\ FiltersIsInvalid) =>
        /\ ~parseOut.r.ok
        /\ parseOut.r.err # Nil
        /\ parseOut.r.options = ZeroOptions

C22_Witness ==
    /\ parseOut.done /\ FiltersIsInvalid
    /\ DOMAIN parseIn = {"_filters", "_start", "_end", "_sort", "_order"}
    /\ parseIn["_start"] = << <<"1", "0">> >> /\ parseIn["_sort"] = <<"name">>
    /\ parseOut.r.options.Offset = I64(0) /\ parseOut.r.options.Sort = ""
    /\ ~parseOut.r.ok

---------------------------------------------------------------------------
\* the parameter names the specification calls reserved
ReservedKeys == {":id", "_start", "_end", "_sort", "_order", "_filters"}

(* C23 as stated: a query key becomes a filter exactly when it is none of
   ':id', '_start', '_end', '_sort', '_order', '_filters'. *)
C23_ReservedKeys ==
    Parsed => \A k \in DOMAIN parseIn :
                  (k \in DOMAIN Options.Filters) <=> (k \notin ReservedKeys)

(* C23: a query key becomes a filter exactly when it does not start with
   '_': ':id' is folded into the filters like any other key, '_limit' is
   not. *)
C23_UnderscoreKeys ==
    Parsed => \A k \in DOMAIN parseIn :
                  (k \in DOMAIN Options.Filters) <=> (k \in PlainKeys)

C23_Witness ==
    /\ Parsed
    /\ ":id" \in DOMAIN parseIn
    /\ ":id" \in DOMAIN Options.Filters
    /\ Options.Filters[":id"] = JStr("1")

---------------------------------------------------------------------------
\* the request's '_filters' parameter is a text that is not JSON
RequestFiltersInvalid ==
    /\ "_filters" \in DOMAIN cur.query
    /\ cur.query["_filters"][1].scan = "garbage"

(* C26: GetAll on a query whose '_filters' is not valid JSON answers 400
   with a body {"error": <text>}, calls neither ReadAll nor Count, and sets
   no X-Total-Count header. *)
C26_GetAllBadFilters ==
    (Done("GetAll") /\ RequestFiltersInvalid) =>
        /\ resp.status = 400
        /\ HasErrorBody
        /\ calls = << >>
        /\ "X-Total-Count" \notin DOMAIN resp.header
        /\ data = data0

C26_Witness ==
    /\ Done("GetAll") /\ RequestFiltersInvalid
    /\ resp.status = 400
    /\ DOMAIN data # {}
    /\ err = Nil

---------------------------------------------------------------------------
\* a handler has answered
Answered == pc = "idle" /\ cur.op # "none"

\* the text of the response's "error" member
Msg == resp.body[1].fields["error"].s

\* the words around the entity name in a message
Prefixes == {"", "Reading ", "Updating ", "Saving ", "Deleting ", "Error reading "}
Suffixes == {" not found", ": Permission denied"}

\* the messages that carry the entity's display name
WithName == {p \o entityName \o s : p \in Prefixes, s \in Suffixes}

\* the messages that carry the entity's display name and the ids written as i
WithNameAndIds(i) ==
    {p \o entityName \o "(id:" \o i \o s :
        p \in Prefixes, s \in {") not found", "): Permission denied"}}

\* the ids of the request as a message shows them
IdsText == IF cur.op = "Delete" THEN FmtIds(ReqIds) ELSE ReqId

(* C25 as stated: every failure response (403, 404, 405, 422, 500) carries
   the entity's display name in its error message and, for Get, Put and
   Delete, the id or ids of the request. *)
C25_FailureCarriesNameAndIds ==
    (Answered /\ resp.status \in {403, 404, 405, 422, 500}) =>
        /\ HasErrorBody
        /\ IF cur.op \in {"Get", "Put", "Delete"}
           THEN Msg \in WithNameAndIds(IdsText)
           ELSE Msg \in WithName

(* C25: every 403 and 404 response carries the entity's display name in its
   error message; those of Get and Delete carry the id or ids of the
   request as well, those of Put, Post and GetAll need not. *)
C25_DeniedAndMissingCarryName ==
    (Answered /\ resp.status \in {403, 404}) =>
        /\ HasErrorBody
        /\ IF cur.op \in {"Get", "Delete"}
           THEN Msg \in WithNameAndIds(IdsText)
           ELSE Msg \in WithName \cup WithNameAndIds(ReqId)

C25_Witness ==
    /\ Done("Put") /\ resp.status = 404
    /\ ReqId = "999"
    /\ HasErrorBody
    /\ Msg = entityName \o " not found"

---------------------------------------------------------------------------
\* the backend call changed the stored records: one of its Store,
\* LoadOrStore and Delete operations left the map different
Changed(call) == "changed" \in DOMAIN call /\ call.changed

(* C27: a Post, Put or Delete request that is answered with a status other
   than 200 has changed no stored record, whatever the other users of the
   repository do meanwhile. *)
C27_FailureLeavesRecords ==
    (Answered /\ cur.op \in {"Post", "Put", "Delete"} /\ resp.status # 200) =>
        \A i \in DOMAIN calls : ~Changed(calls[i])

(* C28: a GetAll without pagination and filters that answers 200 has an
   X-Total-Count equal to the number of elements of the array it returns,
   also while records are saved and deleted. *)
C28_CountMatchesList ==
    (Done("GetAll") /\ resp.status = 200 /\ cur.query = EmptyValues) =>
        /\ resp.body[1].t = "array"
        /\ resp.header["X-Total-Count"] = FormatInt(Len(resp.body[1].items))

(* C29: the ids returned by successful Save calls are pairwise different,
   also when the calls overlap, and the step in which a Save returns an id
   leaves every record stored before as it was. *)
C29_SaveIds ==
    /\ [](\A i, j \in DOMAIN saved : i # j => saved[i] # saved[j])
    /\ [][saved' # saved =>
              \A k \in DOMAIN data : k \in DOMAIN data' /\ data'[k] = data[k]]_vars

C29_Witness ==
    /\ callers["b"].at = "SaveStore"
    /\ callers["b"].entity.ID = "1"
    /\ saved = <<"2">>
    /\ DOMAIN data = {"2"}

(* C30: after any sequence of Save, Update (with or without field names,
   whatever ID the submitted entity holds) and Delete calls, the ID of every
   stored record is the key it is stored under. *)
C30_IdIsKey == \A k \in DOMAIN data : data[k].ID = k

C30_Witness ==
    /\ "1" \in DOMAIN data
    /\ data["1"] = [ID |-> "1", Name |-> "Ann", Age |-> 31]
    /\ \A c \in Callers : callers[c] = Idle
    /\ UpdateInput.ID = "2"

---------------------------------------------------------------------------
\* the response signals a failure
Failure == resp.status >= 400

(* C24: every handler invocation, of Controller[T] and of the earlier
   Controller, writes exactly one response whose body is a single JSON
   value; the body of a failure response is an object with either an
   "error" member holding a string or an "errors" member holding a map,
   never both and never neither. *)
C24_OneJSONResponse ==
    Answered =>
        /\ resp.writes = 1
        /\ Len(resp.body) = 1
        /\ Failure =>
               /\ resp.body[1].t = "object"
               /\ \/ /\ "error" \in DOMAIN resp.body[1].fields
                     /\ "errors" \notin DOMAIN resp.body[1].fields
                     /\ resp.body[1].fields["error"].t = "string"
                  \/ /\ "errors" \in DOMAIN resp.body[1].fields
                     /\ "error" \notin DOMAIN resp.body[1].fields
                     /\ resp.body[1].fields["errors"].t = "object"

====
